---------------------------- MODULE Spec2Model ----------------------------
(***************************************************************************)
(* A model of the KubeOps chat participant: the traffic-flow graph engine  *)
(* (GraphBuilder, the per-kind discovery algorithms and their router), the *)
(* network-policy evaluator, the reverse-dependency impact classifier and  *)
(* the write-approval gate of the chat request handler.                    *)
(*                                                                         *)
(* Strings are sequences of atoms: an atom is one character ("a", ".",     *)
(* "|", " ") or a fixed word that no other atom is a prefix of ("svc",     *)
(* "cluster", "Service", a whole reason sentence).  Concatenation, prefix  *)
(* tests, trimming and splitting work on these sequences as the JavaScript *)
(* operations work on characters.                                          *)
(***************************************************************************)
EXTENDS Naturals, Sequences, FiniteSets, TLC

VARIABLES
  \* ---- one traffic query (analyzeTrafficFlow) ----
  pc,               \* where the query is: which await it is suspended at
  args,             \* the normalised TrafficFlowArgs {kind, name, namespace, includeIstio}
  kcNamespace,      \* namespace of the current kube context, as the query read it
  gb,               \* the GraphBuilder of the query
  cur,              \* the running discoverFromService call: name, includeIstio, focusPodName
  svcQueue,         \* services the caller's loop has still to discover
  podQueue,         \* pods the Deployment loop has still to discover
  pod,              \* discoverFromPod: the pod it read
  destinationRules, \* discoverFromService: the listed DestinationRules
  vss,              \* discoverFromService: the listed VirtualServices
  apiCalls,         \* the cluster API calls the query has issued
  objectsLeft,      \* how many more cluster objects the listings may still return
  result,           \* what the tool call returned: a graph or an error
  \* ---- one network-policy evaluation (discoverNetworkPoliciesForTraffic) ----
  np,
  \* ---- one impact query (analyzeImpact) ----
  imp,
  \* ---- the chat participant (chatRequestHandler) ----
  pendingWriteApprovals, \* insertion-ordered map id -> bundle
  req,                   \* the chat requests in flight
  nextId,                \* the next approval id makeApprovalId will hand out
  clusterWrites,         \* the writes the cluster has received, in order
  \* ---- one GraphBuilder in the hands of its callers ----
  bld,                   \* the builder: start, nodes, edges, warnings
  returned,              \* the graphs build() has returned, as they were returned
  lastCall,              \* the last method call made on the builder
  issued,                \* per sibling discovery, the edges it has added
  callsLeft,             \* how many more calls the callers make
  \* ---- one rendering of a graph as a flow diagram (toMermaid) ----
  diagram

trafficVars == <<pc, args, kcNamespace, gb, cur, svcQueue, podQueue, pod,
                 destinationRules, vss, apiCalls, objectsLeft, result>>
chatVars == <<pendingWriteApprovals, req, nextId, clusterWrites>>
builderVars == <<bld, returned, lastCall, issued, callsLeft>>
vars == <<trafficVars, np, imp, chatVars, builderVars, diagram>>

----------------------------------------------------------------------------
(* Bounds *)

\* The auxiliary listings of one traffic query return at most this many
\* cluster objects in total (a slice, an endpoint, an ingress, a backend, a
\* DestinationRule, a VirtualService, a route, a gateway reference, a pod,
\* a service each count as one).
MaxObjects == 4

\* The NetworkPolicy listing of one evaluation returns at most this many
\* objects in total (a policy, an ingress rule, a from entry each count as one).
MaxPolicyObjects == 3

\* The workload listings of one impact query return at most this many
\* objects in total (a workload, a volume, a projected source, an init
\* container, an envFrom entry, an env entry each count as one).
MaxWorkloadObjects == 3

\* The chat participant receives at most this many requests.
MaxRequests == 3

\* The callers of one GraphBuilder make at most this many calls on it.
MaxCalls == 4
\* the addEdge calls behind a rendered graph
MaxEdges == 2

----------------------------------------------------------------------------
(* Strings *)

\* JavaScript's undefined: an absent optional string.
undefined == <<"undefined">>

\* x || d for strings: undefined and "" are falsy.
OrElse(x, d) == IF x = undefined \/ x = <<>> THEN d ELSE x

\* s.startsWith(p)
startsWith(s, p) == Len(p) <= Len(s) /\ SubSeq(s, 1, Len(p)) = p

\* s.trim()
RECURSIVE trim(_)
trim(s) ==
  IF s = <<>> THEN s
  ELSE IF Head(s) = " " THEN trim(Tail(s))
  ELSE IF s[Len(s)] = " " THEN trim(SubSeq(s, 1, Len(s) - 1))
  ELSE s

\* host.split(".")[0]
RECURSIVE firstLabel(_)
firstLabel(s) ==
  IF s = <<>> \/ Head(s) = "." THEN <<>> ELSE <<Head(s)>> \o firstLabel(Tail(s))

\* parts.join(sep) for a sequence of strings
RECURSIVE join(_, _)
join(parts, sep) ==
  IF parts = <<>> THEN <<>>
  ELSE IF Len(parts) = 1 THEN parts[1]
  ELSE parts[1] \o sep \o join(Tail(parts), sep)

\* String(n) for the numbers the model uses
NumStr(n) == <<ToString(n)>>

----------------------------------------------------------------------------
(* Nodes and the graph accumulator *)

nodeId(kind, name, namespace) ==
  kind \o <<"|">> \o (IF namespace = undefined THEN <<>> ELSE namespace) \o <<"|">> \o name

roleForKind(kind) ==
  CASE kind \in {<<"Ingress">>, <<"Gateway">>} -> "entry"
    [] kind = <<"VirtualService">> -> "router"
    [] kind = <<"Service">> -> "service"
    [] kind \in {<<"EndpointSlice">>, <<"Endpoints">>} -> "endpoint"
    [] kind \in {<<"Deployment">>, <<"StatefulSet">>, <<"DaemonSet">>, <<"ReplicaSet">>} -> "workload"
    [] kind = <<"Pod">> -> "pod"
    [] kind = <<"DestinationRule">> -> "router"
    [] OTHER -> "unknown"

makeNode(kind, name, namespace, role) ==
  [id |-> nodeId(kind, name, namespace), kind |-> kind, name |-> name,
   namespace |-> namespace, role |-> role]

\* makeNode(kind, name, ns, roleForKind(kind)), as every caller writes it
node(kind, name, namespace) == makeNode(kind, name, namespace, roleForKind(kind))

\* Map.set(n.id, n): an existing key keeps its place, a new key goes last
addNode(g, n) ==
  IF \E i \in DOMAIN g.nodes : g.nodes[i].id = n.id
  THEN [g EXCEPT !.nodes = [i \in DOMAIN g.nodes |->
                               IF g.nodes[i].id = n.id THEN n ELSE g.nodes[i]]]
  ELSE [g EXCEPT !.nodes = Append(@, n)]

\* a faulty variant of hasEdge: a builder that never finds an edge present
hasEdgeNever(g, from, to, reason) == FALSE

\* edges.some(e => e.from === from.id && e.to === to.id && e.reason === reason)
hasEdge(g, from, to, reason) ==
  \E i \in DOMAIN g.edges :
    g.edges[i].from = from.id /\ g.edges[i].to = to.id /\ g.edges[i].reason = reason

\* a faulty variant of addEdge: the edge is appended without the check
addEdgeUnchecked(g, from, to, reason) ==
  [addNode(addNode(g, from), to) EXCEPT
     !.edges = Append(@, [from |-> from.id, to |-> to.id, reason |-> reason])]

\* a faulty variant of addEdge: an edge between the two nodes, whatever its
\* reason, keeps the new one out
addEdgeByEndpoints(g, from, to, reason) ==
  LET g2 == addNode(addNode(g, from), to)
  IN IF \E i \in DOMAIN g2.edges : g2.edges[i].from = from.id /\ g2.edges[i].to = to.id
     THEN g2
     ELSE [g2 EXCEPT !.edges = Append(@, [from |-> from.id, to |-> to.id, reason |-> reason])]

addEdge(g, from, to, reason) ==
  LET g2 == addNode(addNode(g, from), to)
  IN IF hasEdge(g2, from, to, reason) THEN g2
     ELSE [g2 EXCEPT !.edges = Append(@, [from |-> from.id, to |-> to.id, reason |-> reason])]

addWarning(g, w) == [g EXCEPT !.warnings = Append(@, w)]

\* new GraphBuilder(start)
GraphBuilder(start) ==
  addNode([start |-> start, nodes |-> <<>>, edges |-> <<>>, warnings |-> <<>>], start)

\* build(): an absent warnings field is the empty list
build(g) == [start |-> g.start, nodes |-> g.nodes, edges |-> g.edges, warnings |-> g.warnings]

\* the builder before the query has constructed one
NoGraph ==
  [start |-> makeNode(<<>>, <<>>, undefined, "unknown"),
   nodes |-> <<>>, edges |-> <<>>, warnings |-> <<>>]

----------------------------------------------------------------------------
(* The cluster as the traffic query sees it *)

\* namespaces: the one a query may name, the kube context's, the fallback
NsN == <<"n">>
NsM == <<"m">>
NsDefault == <<"default">>

\* names of listed objects: a listing never returns two objects of one name
SvcName(i) == IF i = 1 THEN <<"a">> ELSE IF i = 2 THEN <<"b">> ELSE <<"c", ToString(i)>>
PodName(i) == <<"p", ToString(i)>>
IngName(i) == <<"i", ToString(i)>>
VsName(i) == <<"v", ToString(i)>>
DrName(i) == <<"d", ToString(i)>>
SliceName(svc, i) == svc \o <<"-", ToString(i)>>

\* label maps: functions from a set of keys; {} and an absent map are both <<>>
LabelSets == {<<>>, [k \in {"app"} |-> "x"], [k \in {"app"} |-> "y"]}

\* the fully-qualified spelling of service name in namespace ns
Fqdn(name, ns) == name \o <<".">> \o ns \o <<".", "svc", ".", "cluster", ".", "local">>

\* route destination hosts a VirtualService may name
VsHosts == {<<"a">>, <<"a", ".", "n">>, Fqdn(<<"a">>, NsN), <<"a", "b">>, <<"b">>}
\* hosts a DestinationRule may declare
DrHosts == {<<"a">>, <<"a", ".", "m">>, Fqdn(<<"a">>, NsN), <<"b">>}
\* optional numbers: <<>> is undefined, <<n>> the number n
NoNum == <<>>
\* route destinations: host, optional subset, optional numeric weight
Dests ==
  {[host |-> h, subset |-> sw[1], weight |-> sw[2]] :
     h \in VsHosts, sw \in {<<undefined, NoNum>>, <<<<"s">>, <<50>>>>}}
\* endpoints[].targetRef
TargetRefs ==
  {[kind |-> <<"Pod">>, name |-> PodName(1), namespace |-> undefined],
   [kind |-> <<"Pod">>, name |-> PodName(2), namespace |-> undefined],
   [kind |-> <<"Pod">>, name |-> PodName(1), namespace |-> NsM],
   [kind |-> <<"Node">>, name |-> PodName(1), namespace |-> undefined]}
\* metadata.ownerReferences[] of a pod
OwnerRefs ==
  {[kind |-> <<"ReplicaSet">>, name |-> <<"r">>],
   [kind |-> <<"Node">>, name |-> <<"r">>]}

\* sequences over S of length at most n
SeqsUpTo(S, n) == UNION {[1..k -> S] : k \in 0..n}

\* The lists a listing may return when k more objects may still be returned;
\* i is the index of the list's next object.
RECURSIVE SliceLists(_, _, _)
SliceLists(svc, i, k) ==
  {<<>>} \cup
  UNION {{<<es>> \o rest : rest \in SliceLists(svc, i + 1, k - 1 - Len(es.endpoints))} :
           es \in IF k = 0 THEN {}
                  ELSE {[name |-> SliceName(svc, i), endpoints |-> eps] :
                          eps \in SeqsUpTo(TargetRefs, k - 1)}}

RECURSIVE IngressLists(_, _)
IngressLists(i, k) ==
  {<<>>} \cup
  UNION {{<<ing>> \o rest : rest \in IngressLists(i + 1, k - 1 - Len(ing.backends))} :
           ing \in IF k = 0 THEN {}
                   ELSE {[name |-> IngName(i), defaultBackend |-> d, backends |-> bs] :
                           d \in {undefined, SvcName(1)},
                           bs \in SeqsUpTo({SvcName(1), SvcName(2)}, k - 1)}}

RECURSIVE DestinationRuleLists(_, _)
DestinationRuleLists(i, k) ==
  {<<>>} \cup
  UNION {{<<dr>> \o rest : rest \in DestinationRuleLists(i + 1, k - 1)} :
           dr \in IF k = 0 THEN {} ELSE {[name |-> DrName(i), host |-> h] : h \in DrHosts}}

\* the VirtualServices of index i with at most k - 1 gateways and routes
VirtualServicesAt(i, k) ==
  IF k = 0 THEN {}
  ELSE UNION {{[name |-> VsName(i), gateways |-> gws, routes |-> rts] :
                 rts \in SeqsUpTo(Dests, k - 1 - Len(gws))} :
                gws \in SeqsUpTo({<<"g">>, <<"mesh">>}, k - 1)}

RECURSIVE VirtualServiceLists(_, _)
VirtualServiceLists(i, k) ==
  {<<>>} \cup
  UNION {{<<vs>> \o rest :
            rest \in VirtualServiceLists(i + 1, k - 1 - Len(vs.gateways) - Len(vs.routes))} :
           vs \in VirtualServicesAt(i, k)}

RECURSIVE ServiceLists(_, _)
ServiceLists(i, k) ==
  {<<>>} \cup
  UNION {{<<svc>> \o rest : rest \in ServiceLists(i + 1, k - 1)} :
           svc \in IF k = 0 THEN {}
                   ELSE {[name |-> SvcName(i), selector |-> sel] : sel \in LabelSets}}

\* pod names p1 .. pk, k at most the objects left
PodNameLists(k) == {[i \in 1..n |-> PodName(i)] : n \in 0..k}

\* what the objects of a list count
RECURSIVE Cost(_)
Cost(list) ==
  IF list = <<>> THEN 0
  ELSE 1 + (IF "endpoints" \in DOMAIN Head(list) THEN Len(Head(list).endpoints) ELSE 0)
         + (IF "backends" \in DOMAIN Head(list) THEN Len(Head(list).backends) ELSE 0)
         + (IF "routes" \in DOMAIN Head(list)
            THEN Len(Head(list).routes) + Len(Head(list).gateways) ELSE 0)
         + Cost(Tail(list))

\* what a read or a listing may do besides returning: answer 404, or fail
\* otherwise (403, a timeout, a transient error)
Failures == {"404", "403"}
ErrorOf(f) == <<"HTTP ", f>>

----------------------------------------------------------------------------
(* Helpers of the discovery algorithms *)

\* ns || kc.getContextObject(kc.getCurrentContext())?.namespace || "default"
defaultNamespace(kcNs, ns) == OrElse(ns, OrElse(kcNs, NsDefault))

\* every selector entry is a label of the pod; an empty or absent selector
\* matches nothing
podLabelsMatchSelector(podLabels, selector) ==
  /\ DOMAIN selector # {}
  /\ \A k \in DOMAIN selector : k \in DOMAIN podLabels /\ podLabels[k] = selector[k]

\* a faulty variant of hostHitsService: exact spellings only, no "S." prefix
hostHitsServiceExact(host, name, ns) == host = name \/ host = Fqdn(name, ns)

\* the test discoverFromService applies to a route's destination.host
hostHitsService(host, name, ns) ==
  \/ host = name
  \/ startsWith(host, name \o <<".">>)
  \/ host = Fqdn(name, ns)

\* the index of the first DestinationRule that matches, 0 when none does
findMatchingDestinationRule(drs, destinationHost, serviceName, namespace) ==
  LET candidates == {serviceName,
                     serviceName \o <<".">> \o namespace,
                     Fqdn(serviceName, namespace),
                     destinationHost}
      ok(i) == /\ OrElse(drs[i].host, <<>>) # <<>>
               /\ \/ drs[i].host \in candidates
                  \/ drs[i].host = serviceName
                  \/ startsWith(drs[i].host, serviceName \o <<".">>)
  IN IF \E i \in DOMAIN drs : ok(i)
     THEN CHOOSE i \in DOMAIN drs : ok(i) /\ \A j \in 1..(i - 1) : ~ok(j)
     ELSE 0

\* Service -> EndpointSlice -> Pod for the endpoints of one slice
RECURSIVE endpointEdges(_, _, _, _, _)
endpointEdges(g, esNode, endpoints, ns, focusPodName) ==
  IF endpoints = <<>> THEN g
  ELSE LET tr == Head(endpoints)
           skip == \/ tr.kind # <<"Pod">>
                   \/ OrElse(tr.name, <<>>) = <<>>
                   \/ (OrElse(focusPodName, <<>>) # <<>> /\ tr.name # focusPodName)
           podNode == node(<<"Pod">>, tr.name,
                           IF tr.namespace = undefined THEN ns ELSE tr.namespace)
       IN endpointEdges(
            IF skip THEN g
            ELSE addEdge(g, esNode, podNode, <<"EndpointSlice endpoint targetRef -> Pod">>),
            esNode, Tail(endpoints), ns, focusPodName)

RECURSIVE sliceEdges(_, _, _, _, _)
sliceEdges(g, svc, slices, ns, focusPodName) ==
  IF slices = <<>> THEN g
  ELSE LET es == Head(slices)
           esNode == node(<<"EndpointSlice">>, es.name, ns)
           g1 == addEdge(g, svc, esNode,
                         <<"Service selects EndpointSlice (kubernetes.io/service-name)">>)
       IN sliceEdges(endpointEdges(g1, esNode, es.endpoints, ns, focusPodName),
                     svc, Tail(slices), ns, focusPodName)

\* an ingress routes to the service by its default backend or one of its paths
ingressMatches(ing, name) ==
  \/ ing.defaultBackend = name
  \/ \E i \in DOMAIN ing.backends : ing.backends[i] = name

RECURSIVE ingressEdges(_, _, _, _)
ingressEdges(g, svc, ingresses, ns) ==
  IF ingresses = <<>> THEN g
  ELSE LET ing == Head(ingresses)
       IN ingressEdges(
            IF ingressMatches(ing, svc.name)
            THEN addEdge(g, node(<<"Ingress">>, ing.name, ns), svc,
                         <<"Ingress backend routes to this Service">>)
            ELSE g,
            svc, Tail(ingresses), ns)

\* the destinations of a VirtualService that point at the service
RECURSIVE matchedDestinations(_, _, _)
matchedDestinations(routes, name, ns) ==
  IF routes = <<>> THEN <<>>
  ELSE (IF hostHitsService(Head(routes).host, name, ns) THEN <<Head(routes)>> ELSE <<>>)
       \o matchedDestinations(Tail(routes), name, ns)

\* Gateway -> VirtualService for every gateway but "mesh"
RECURSIVE gatewayEdges(_, _, _, _, _)
gatewayEdges(g, vsNode, gateways, ns, reason) ==
  IF gateways = <<>> THEN g
  ELSE gatewayEdges(
         IF Head(gateways) # <<"mesh">>
         THEN addEdge(g, node(<<"Gateway">>, Head(gateways), ns), vsNode, reason)
         ELSE g,
         vsNode, Tail(gateways), ns, reason)

\* " (subset: s, traffic: w%)" for the parts that are present
destinationRuleSuffix(dest) ==
  LET subsetInfo == IF OrElse(dest.subset, <<>>) # <<>>
                    THEN <<<<"subset: ">> \o dest.subset>> ELSE <<>>
      weightInfo == IF dest.weight # NoNum
                    THEN <<<<"traffic: ">> \o NumStr(dest.weight[1]) \o <<"%">>>> ELSE <<>>
      extras == join(subsetInfo \o weightInfo, <<", ">>)
  IN IF extras # <<>> THEN <<" (">> \o extras \o <<")">> ELSE <<>>

\* VirtualService -> DestinationRule -> Service for the matched destinations
RECURSIVE destinationRuleEdges(_, _, _, _, _, _)
destinationRuleEdges(g, vsNode, svc, dests, drs, ns) ==
  IF dests = <<>> THEN g
  ELSE LET dest == Head(dests)
           i == findMatchingDestinationRule(drs, dest.host, svc.name, ns)
           drNode == node(<<"DestinationRule">>, drs[i].name, ns)
           g1 == addEdge(g, vsNode, drNode,
                         <<"VirtualService traffic policy via DestinationRule">>
                           \o destinationRuleSuffix(dest))
           g2 == addEdge(g1, drNode, svc, <<"DestinationRule applies to this service host">>)
       IN destinationRuleEdges(IF i = 0 THEN g ELSE g2, vsNode, svc, Tail(dests), drs, ns)

\* a faulty variant of matchedAnyDestinationRule: the flag is never set
matchedAnyDestinationRuleNever(dests, drs, name, ns) == FALSE

\* a faulty variant of matchedAnyDestinationRule: the flag is always set
matchedAnyDestinationRuleAlways(dests, drs, name, ns) == TRUE

\* matchedAnyDestinationRule after the loop over the matched destinations
matchedAnyDestinationRule(dests, drs, name, ns) ==
  \E k \in DOMAIN dests : findMatchingDestinationRule(drs, dests[k].host, name, ns) # 0

\* the numeric weights of the matched destinations, as strings
RECURSIVE weightsOf(_)
weightsOf(dests) ==
  IF dests = <<>> THEN <<>>
  ELSE (IF Head(dests).weight # NoNum THEN <<NumStr(Head(dests).weight[1])>> ELSE <<>>)
       \o weightsOf(Tail(dests))

weightSuffix(dests) ==
  LET weights == weightsOf(dests)
  IN IF Len(weights) = 1 THEN <<" (traffic: ">> \o weights[1] \o <<"%)">>
     ELSE IF Len(weights) > 1
          THEN <<" (traffic weights: ">> \o join(weights, <<"/">>) \o <<"%)">>
          ELSE <<>>

\* the body of the loop over the listed VirtualServices, for one of them
virtualServiceEdges(g, svc, vs, drs, ns) ==
  LET dests == matchedDestinations(vs.routes, svc.name, ns)
      vsNode == node(<<"VirtualService">>, vs.name, ns)
      g1 == gatewayEdges(g, vsNode, vs.gateways, ns,
                         <<"Gateway is referenced by VirtualService">>)
      g2 == destinationRuleEdges(g1, vsNode, svc, dests, drs, ns)
  IN IF dests = <<>> THEN g
     ELSE IF matchedAnyDestinationRule(dests, drs, svc.name, ns) THEN g2
     ELSE addEdge(g2, vsNode, svc,
                  <<"VirtualService routes to Service via destination.host">>
                    \o weightSuffix(dests))

RECURSIVE virtualServicesEdges(_, _, _, _, _)
virtualServicesEdges(g, svc, list, drs, ns) ==
  IF list = <<>> THEN g
  ELSE virtualServicesEdges(virtualServiceEdges(g, svc, Head(list), drs, ns),
                            svc, Tail(list), drs, ns)

\* Workload -> Pod for the owner references of the pod
RECURSIVE ownerEdges(_, _, _, _)
ownerEdges(g, podNode, owners, ns) ==
  IF owners = <<>> THEN g
  ELSE ownerEdges(addEdge(g, node(Head(owners).kind, Head(owners).name, ns), podNode,
                          <<"Workload owns Pod (ownerReferences)">>),
                  podNode, Tail(owners), ns)

\* Service -> Pod for the services whose selector matches the pod
RECURSIVE selectorEdges(_, _, _, _, _)
selectorEdges(g, podNode, labels, services, ns) ==
  IF services = <<>> THEN g
  ELSE selectorEdges(
         IF podLabelsMatchSelector(labels, Head(services).selector)
         THEN addEdge(g, node(<<"Service">>, Head(services).name, ns), podNode,
                      <<"Service selector matches Pod labels">>)
         ELSE g,
         podNode, labels, Tail(services), ns)

\* matchedServices of discoverFromPod
RECURSIVE matchedServices(_, _)
matchedServices(labels, services) ==
  IF services = <<>> THEN <<>>
  ELSE (IF podLabelsMatchSelector(labels, Head(services).selector)
        THEN <<Head(services).name>> ELSE <<>>)
       \o matchedServices(labels, Tail(services))

\* Array.from(new Set(xs)): the first occurrence of each element, in order
RECURSIVE distinct(_)
distinct(xs) ==
  IF xs = <<>> THEN <<>>
  ELSE LET init == distinct(SubSeq(xs, 1, Len(xs) - 1))
           last == xs[Len(xs)]
       IN IF \E i \in DOMAIN init : init[i] = last THEN init ELSE Append(init, last)

\* the backend services of an ingress: the paths' first, the default last
ingressServices(ing) ==
  distinct(ing.backends
           \o (IF OrElse(ing.defaultBackend, <<>>) # <<>> THEN <<ing.defaultBackend>> ELSE <<>>))

\* the service names of a VirtualService's destinations: each host's first label
RECURSIVE destinationLabels(_)
destinationLabels(routes) ==
  IF routes = <<>> THEN <<>>
  ELSE (IF trim(Head(routes).host) # <<>> THEN <<firstLabel(Head(routes).host)>> ELSE <<>>)
       \o destinationLabels(Tail(routes))

\* the first object of the list with the name, 0 when there is none
findByName(list, name) ==
  IF \E i \in DOMAIN list : list[i].name = name
  THEN CHOOSE i \in DOMAIN list : list[i].name = name /\ \A j \in 1..(i - 1) : list[j].name # name
  ELSE 0

----------------------------------------------------------------------------
(* The traffic query: analyzeTrafficFlow and the discovery it awaits *)

StartKinds ==
  {<<"Service">>, <<"Pod">>, <<"Ingress">>, <<"VirtualService">>, <<"Deployment">>,
   <<"Gateway">>, <<"ConfigMap">>}

\* the name a query for the kind asks for
StartName(kind) ==
  CASE kind = <<"Service">> -> SvcName(1)
    [] kind = <<"Pod">> -> PodName(1)
    [] kind = <<"Ingress">> -> IngName(1)
    [] kind = <<"VirtualService">> -> VsName(1)
    [] OTHER -> <<"w">>

\* the tool arguments the planner may send: fields may be absent or blank
RawArgs ==
  UNION {{[kind |-> k, name |-> n, namespace |-> ns, includeIstio |-> ii] :
            n \in {undefined, <<" ">>, StartName(k), <<" ">> \o StartName(k)},
            ns \in {undefined, NsN}, ii \in {"undefined", "true", "false"}} :
         k \in StartKinds}
  \cup
  {[kind |-> k, name |-> SvcName(1), namespace |-> undefined, includeIstio |-> "undefined"] :
     k \in {undefined, <<>>, <<" ">>}}

NoArgs == [kind |-> <<>>, name |-> <<>>, namespace |-> undefined, includeIstio |-> TRUE]
NoCall == [name |-> <<>>, includeIstio |-> FALSE, focusPodName |-> undefined]
NoPod == [name |-> <<>>, labels |-> <<>>]
NoResult == [status |-> "none", error |-> <<>>, graph |-> build(NoGraph)]

\* the states of the other components while a traffic query runs

otherVars == <<np, imp, chatVars, builderVars, diagram>>

\* an exception leaves analyzeTrafficFlow: the caller gets the error, no graph
Throw(e) ==
  /\ pc' = "failed"
  /\ result' = [status |-> "error", error |-> e, graph |-> build(NoGraph)]

\* analyzeTrafficFlow returns the built graph
Return(g) ==
  /\ pc' = "done"
  /\ result' = [status |-> "ok", error |-> <<>>, graph |-> build(g)]

\* the node of the service the running discoverFromService call is about
svcNode == node(<<"Service">>, cur.name, args.namespace)

\* analyzeTrafficFlow: normalise and validate the arguments
analyzeTrafficFlow ==
  /\ pc = "idle"
  /\ \E rawArgs \in RawArgs, kcNs \in {undefined, NsM} :
       LET kind == trim(OrElse(rawArgs.kind, <<>>))
           name == trim(OrElse(rawArgs.name, <<>>))
       IN IF kind = <<>> \/ name = <<>>
          THEN /\ args' = [kind |-> kind, name |-> name, namespace |-> rawArgs.namespace,
                           includeIstio |-> rawArgs.includeIstio # "false"]
               /\ kcNamespace' = kcNamespace
               /\ Throw(<<"analyzeTrafficFlow requires kind and name">>)
          ELSE /\ args' = [kind |-> kind, name |-> name,
                           namespace |-> defaultNamespace(kcNs, rawArgs.namespace),
                           includeIstio |-> rawArgs.includeIstio # "false"]
               /\ kcNamespace' = kcNs
               /\ pc' = "ensureStartExists"
               /\ result' = result
  /\ UNCHANGED <<gb, cur, svcQueue, podQueue, pod, destinationRules, vss,
                 apiCalls, objectsLeft, otherVars>>

\* ensureStartExists, then new GraphBuilder(start)
ensureStartExists ==
  /\ pc = "ensureStartExists"
  /\ LET start == node(args.kind, args.name, args.namespace)
         proceed == /\ gb' = GraphBuilder(start)
                    /\ pc' = "discoverTraffic"
                    /\ result' = result
     IN IF args.kind \in {<<"VirtualService">>, <<"Gateway">>} /\ ~args.includeIstio
        THEN /\ Throw(<<"includeIstio=false: ">> \o args.kind \o <<" lookup disabled">>)
             /\ UNCHANGED <<gb, apiCalls>>
        ELSE IF args.kind \in {<<"Service">>, <<"Pod">>, <<"Ingress">>,
                               <<"VirtualService">>, <<"Gateway">>}
        THEN /\ apiCalls' = apiCalls \cup {"read" \o args.kind[1]}
             /\ \E outcome \in {"ok"} \cup Failures :
                  CASE outcome = "ok" -> proceed
                    [] outcome = "404" ->
                         /\ Throw(args.kind \o <<" ">> \o args.name
                                  \o <<" not found in namespace ">> \o args.namespace)
                         /\ gb' = gb
                    [] OTHER -> Throw(ErrorOf(outcome)) /\ gb' = gb
        ELSE proceed /\ apiCalls' = apiCalls
  /\ UNCHANGED <<args, kcNamespace, cur, svcQueue, podQueue, pod, destinationRules, vss,
                 objectsLeft, otherVars>>

\* discoverTraffic: the start node and the switch on the start kind
discoverTraffic ==
  /\ pc = "discoverTraffic"
  /\ LET start == node(args.kind, args.name, args.namespace)
         g == addNode(gb, start)
     IN CASE args.kind = <<"Deployment">> ->
               /\ gb' = g /\ pc' = "readNamespacedDeployment"
               /\ UNCHANGED <<cur, podQueue, result>>
          [] args.kind = <<"Service">> ->
               /\ gb' = g /\ pc' = "listEndpointSlices"
               /\ cur' = [name |-> args.name, includeIstio |-> args.includeIstio,
                          focusPodName |-> undefined]
               /\ UNCHANGED <<podQueue, result>>
          [] args.kind = <<"Pod">> ->
               /\ gb' = g /\ pc' = "returned" /\ podQueue' = <<args.name>>
               /\ UNCHANGED <<cur, result>>
          [] args.kind = <<"Ingress">> ->
               /\ gb' = g /\ pc' = "discoverFromIngress"
               /\ UNCHANGED <<cur, podQueue, result>>
          [] args.kind = <<"VirtualService">> ->
               IF ~args.includeIstio
               THEN /\ gb' = addWarning(g, <<"includeIstio=false: VirtualService discovery disabled">>)
                    /\ Return(gb')
                    /\ UNCHANGED <<cur, podQueue>>
               ELSE /\ gb' = g /\ pc' = "discoverFromVirtualService"
                    /\ UNCHANGED <<cur, podQueue, result>>
          [] OTHER ->
               /\ gb' = addWarning(g, <<"Traffic flow discovery for kind=">> \o args.kind
                                        \o <<" is not implemented yet (skeleton). Try Service/Pod/Ingress/VirtualService.">>)
               /\ Return(gb')
               /\ UNCHANGED <<cur, podQueue>>
  /\ UNCHANGED <<args, kcNamespace, svcQueue, pod, destinationRules, vss, apiCalls,
                 objectsLeft, otherVars>>

\* listPodsForDeployment: read the deployment for its selector
readNamespacedDeployment ==
  /\ pc = "readNamespacedDeployment"
  /\ apiCalls' = apiCalls \cup {"readDeployment"}
  /\ \E outcome \in {"ok"} \cup Failures :
       IF outcome # "ok" THEN Throw(ErrorOf(outcome)) /\ gb' = gb
       ELSE \E matchLabels \in LabelSets :
              IF DOMAIN matchLabels = {}
              THEN /\ gb' = addWarning(gb, <<"No pods found for Deployment ">> \o args.name
                                             \o <<" in namespace ">> \o args.namespace)
                   /\ Return(gb')
              ELSE /\ gb' = gb /\ pc' = "listNamespacedPod" /\ result' = result
  /\ UNCHANGED <<args, kcNamespace, cur, svcQueue, podQueue, pod, destinationRules, vss,
                 objectsLeft, otherVars>>

\* listPodsForDeployment: list the pods the selector matches
listNamespacedPod ==
  /\ pc = "listNamespacedPod"
  /\ apiCalls' = apiCalls \cup {"listPod"}
  /\ \E outcome \in {"ok"} \cup Failures :
       IF outcome # "ok"
       THEN Throw(ErrorOf(outcome)) /\ UNCHANGED <<gb, podQueue, objectsLeft>>
       ELSE \E podNames \in PodNameLists(objectsLeft) :
              /\ objectsLeft' = objectsLeft - Len(podNames)
              /\ IF podNames = <<>>
                 THEN /\ gb' = addWarning(gb, <<"No pods found for Deployment ">> \o args.name
                                                \o <<" in namespace ">> \o args.namespace)
                      /\ Return(gb')
                      /\ podQueue' = podQueue
                 ELSE /\ podQueue' = podNames /\ pc' = "returned"
                      /\ UNCHANGED <<gb, result>>
  /\ UNCHANGED <<args, kcNamespace, cur, svcQueue, pod, destinationRules, vss, otherVars>>

\* discoverFromPod: read the pod, add its owners
readNamespacedPod ==
  /\ pc = "readNamespacedPod"
  /\ apiCalls' = apiCalls \cup {"readPod"}
  /\ \E outcome \in {"ok"} \cup Failures :
       IF outcome # "ok"
       THEN Throw(ErrorOf(outcome)) /\ UNCHANGED <<gb, pod, objectsLeft>>
       ELSE \E labels \in LabelSets, owners \in SeqsUpTo(OwnerRefs, IF objectsLeft > 0 THEN 1 ELSE 0) :
              /\ pod' = [pod EXCEPT !.labels = labels]
              /\ gb' = ownerEdges(gb, node(<<"Pod">>, pod.name, args.namespace), owners,
                                  args.namespace)
              /\ objectsLeft' = objectsLeft - Len(owners)
              /\ pc' = "listServices" /\ result' = result
  /\ UNCHANGED <<args, kcNamespace, cur, svcQueue, podQueue, destinationRules, vss, otherVars>>

\* discoverFromPod: the services whose selector matches the pod
listServices ==
  /\ pc = "listServices"
  /\ apiCalls' = apiCalls \cup {"listService"}
  /\ \E outcome \in {"ok"} \cup Failures :
       IF outcome # "ok"
       THEN Throw(ErrorOf(outcome)) /\ UNCHANGED <<gb, svcQueue, objectsLeft>>
       ELSE \E services \in ServiceLists(1, objectsLeft) :
              /\ gb' = selectorEdges(gb, node(<<"Pod">>, pod.name, args.namespace),
                                     pod.labels, services, args.namespace)
              /\ svcQueue' = [i \in DOMAIN matchedServices(pod.labels, services) |->
                                [name |-> matchedServices(pod.labels, services)[i],
                                 includeIstio |-> args.includeIstio,
                                 focusPodName |-> pod.name, via |-> "pod"]]
              /\ objectsLeft' = objectsLeft - Len(services)
              /\ pc' = "returned" /\ result' = result
  /\ UNCHANGED <<args, kcNamespace, cur, podQueue, pod, destinationRules, vss, otherVars>>

\* listEndpointSlicesForService: the typed API; any failure falls back
listNamespacedEndpointSlice ==
  /\ pc = "listEndpointSlices"
  /\ apiCalls' = apiCalls \cup {"listEndpointSlice"}
  /\ \E outcome \in {"ok"} \cup Failures :
       IF outcome # "ok"
       THEN pc' = "listEndpointSlicesFallback" /\ UNCHANGED <<gb, objectsLeft>>
       ELSE \E slices \in SliceLists(cur.name, 1, objectsLeft) :
              /\ gb' = sliceEdges(gb, svcNode, slices, args.namespace, cur.focusPodName)
              /\ objectsLeft' = objectsLeft - Cost(slices)
              /\ pc' = "listIngresses"
  /\ UNCHANGED <<args, kcNamespace, cur, svcQueue, podQueue, pod, destinationRules, vss,
                 result, otherVars>>

\* listEndpointSlicesForService: the CustomObjectsApi fallback, not caught
listEndpointSlicesFallback ==
  /\ pc = "listEndpointSlicesFallback"
  /\ apiCalls' = apiCalls \cup {"listEndpointSliceCustom"}
  /\ \E outcome \in {"ok"} \cup Failures :
       IF outcome # "ok"
       THEN Throw(ErrorOf(outcome)) /\ UNCHANGED <<gb, objectsLeft>>
       ELSE \E slices \in SliceLists(cur.name, 1, objectsLeft) :
              /\ gb' = sliceEdges(gb, svcNode, slices, args.namespace, cur.focusPodName)
              /\ objectsLeft' = objectsLeft - Cost(slices)
              /\ pc' = "listIngresses" /\ result' = result
  /\ UNCHANGED <<args, kcNamespace, cur, svcQueue, podQueue, pod, destinationRules, vss,
                 otherVars>>

\* discoverFromService: the ingresses that route to the service
listIngresses ==
  /\ pc = "listIngresses"
  /\ apiCalls' = apiCalls \cup {"listIngress"}
  /\ \E outcome \in {"ok"} \cup Failures :
       IF outcome # "ok"
       THEN Throw(ErrorOf(outcome)) /\ UNCHANGED <<gb, objectsLeft>>
       ELSE \E ingresses \in IngressLists(1, objectsLeft) :
              /\ gb' = ingressEdges(gb, svcNode, ingresses, args.namespace)
              /\ objectsLeft' = objectsLeft - Cost(ingresses)
              /\ pc' = (IF cur.includeIstio THEN "listDestinationRules" ELSE "returned")
              /\ result' = result
  /\ UNCHANGED <<args, kcNamespace, cur, svcQueue, podQueue, pod, destinationRules, vss,
                 otherVars>>

\* discoverFromService: the DestinationRules of the namespace
listDestinationRules ==
  /\ pc = "listDestinationRules"
  /\ apiCalls' = apiCalls \cup {"listDestinationRule"}
  /\ \E outcome \in {"ok"} \cup Failures :
       IF outcome # "ok"
       THEN Throw(ErrorOf(outcome)) /\ UNCHANGED <<destinationRules, objectsLeft>>
       ELSE \E drs \in DestinationRuleLists(1, objectsLeft) :
              /\ destinationRules' = drs
              /\ objectsLeft' = objectsLeft - Cost(drs)
              /\ pc' = "listVirtualServices" /\ result' = result
  /\ UNCHANGED <<args, kcNamespace, gb, cur, svcQueue, podQueue, pod, vss, otherVars>>

\* discoverFromService: the VirtualServices that route to the service
listVirtualServices ==
  /\ pc = "listVirtualServices"
  /\ apiCalls' = apiCalls \cup {"listVirtualService"}
  /\ \E outcome \in {"ok"} \cup Failures :
       IF outcome # "ok"
       THEN Throw(ErrorOf(outcome)) /\ UNCHANGED <<gb, vss, objectsLeft>>
       ELSE \E list \in VirtualServiceLists(1, objectsLeft) :
              /\ vss' = list
              /\ gb' = virtualServicesEdges(gb, svcNode, list, destinationRules, args.namespace)
              /\ objectsLeft' = objectsLeft - Cost(list)
              /\ pc' = "returned" /\ result' = result
  /\ UNCHANGED <<args, kcNamespace, cur, svcQueue, podQueue, pod, destinationRules, otherVars>>

\* discoverFromIngress: find the ingress, queue its backend services
discoverFromIngress ==
  /\ pc = "discoverFromIngress"
  /\ apiCalls' = apiCalls \cup {"listIngress"}
  /\ \E outcome \in {"ok"} \cup Failures :
       IF outcome # "ok"
       THEN Throw(ErrorOf(outcome)) /\ UNCHANGED <<gb, svcQueue, objectsLeft>>
       ELSE \E ingresses \in IngressLists(1, objectsLeft) :
              LET i == findByName(ingresses, args.name)
                  svcs == ingressServices(ingresses[i])
              IN /\ objectsLeft' = objectsLeft - Cost(ingresses)
                 /\ IF i = 0
                    THEN /\ gb' = addWarning(gb, <<"Ingress ">> \o args.name
                                                   \o <<" not found in namespace ">> \o args.namespace)
                         /\ Return(gb')
                         /\ svcQueue' = svcQueue
                    ELSE /\ svcQueue' = [j \in DOMAIN svcs |->
                                           [name |-> svcs[j], includeIstio |-> args.includeIstio,
                                            focusPodName |-> undefined, via |-> "ingress"]]
                         /\ pc' = "returned"
                         /\ UNCHANGED <<gb, result>>
  /\ UNCHANGED <<args, kcNamespace, cur, podQueue, pod, destinationRules, vss, otherVars>>

\* discoverFromVirtualService: find it, add its gateways, queue its services
discoverFromVirtualService ==
  /\ pc = "discoverFromVirtualService"
  /\ apiCalls' = apiCalls \cup {"listVirtualService"}
  /\ \E outcome \in {"ok"} \cup Failures :
       IF outcome # "ok"
       THEN Throw(ErrorOf(outcome)) /\ UNCHANGED <<gb, svcQueue, objectsLeft>>
       ELSE \E list \in VirtualServiceLists(1, objectsLeft) :
              LET i == findByName(list, args.name)
                  vsNode == node(<<"VirtualService">>, args.name, args.namespace)
                  svcNames == distinct(destinationLabels(list[i].routes))
              IN /\ objectsLeft' = objectsLeft - Cost(list)
                 /\ IF i = 0
                    THEN /\ gb' = addWarning(gb, <<"VirtualService ">> \o args.name
                                                   \o <<" not found in namespace ">> \o args.namespace)
                         /\ Return(gb')
                         /\ svcQueue' = svcQueue
                    ELSE /\ gb' = gatewayEdges(gb, vsNode, list[i].gateways, args.namespace,
                                               <<"Gateway referenced by VirtualService">>)
                         /\ svcQueue' = [j \in DOMAIN svcNames |->
                                           [name |-> svcNames[j], includeIstio |-> TRUE,
                                            focusPodName |-> undefined, via |-> "virtualService"]]
                         /\ pc' = "returned" /\ result' = result
  /\ UNCHANGED <<args, kcNamespace, cur, podQueue, pod, destinationRules, vss, otherVars>>

\* a discovery returned to its caller's loop: the next service of the loop,
\* else the next pod of the deployment, else gb.build()
resume ==
  /\ pc = "returned"
  /\ IF svcQueue # <<>>
     THEN LET next == Head(svcQueue)
              ingNode == node(<<"Ingress">>, args.name, args.namespace)
              nextNode == node(<<"Service">>, next.name, args.namespace)
          IN /\ cur' = [name |-> next.name, includeIstio |-> next.includeIstio,
                        focusPodName |-> next.focusPodName]
             /\ gb' = (IF next.via = "ingress"
                       THEN addEdge(gb, ingNode, nextNode, <<"Ingress routes to Service backend">>)
                       ELSE gb)
             /\ svcQueue' = Tail(svcQueue)
             /\ pc' = "listEndpointSlices"
             /\ UNCHANGED <<podQueue, pod, result>>
     ELSE IF podQueue # <<>>
     THEN /\ pod' = [name |-> Head(podQueue), labels |-> <<>>]
          /\ podQueue' = Tail(podQueue)
          /\ pc' = "readNamespacedPod"
          /\ UNCHANGED <<gb, cur, svcQueue, result>>
     ELSE /\ Return(gb)
          /\ UNCHANGED <<gb, cur, svcQueue, podQueue, pod>>
  /\ UNCHANGED <<args, kcNamespace, destinationRules, vss, apiCalls, objectsLeft, otherVars>>

TrafficInit ==
  /\ pc = "idle"
  /\ args = NoArgs
  /\ kcNamespace = undefined
  /\ gb = NoGraph
  /\ cur = NoCall
  /\ svcQueue = <<>>
  /\ podQueue = <<>>
  /\ pod = NoPod
  /\ destinationRules = <<>>
  /\ vss = <<>>
  /\ apiCalls = {}
  /\ objectsLeft = MaxObjects
  /\ result = NoResult

----------------------------------------------------------------------------
(* The network-policy evaluator: discoverNetworkPoliciesForTraffic *)

\* opts?.maxPolicies ?? 20
DefaultMaxPolicies == 20

\* an optional value: <<>> is undefined, <<v>> is the value v
Some(v) == <<v>>
None == <<>>

\* label maps of pods, with the selectors that test them
PodLabelSets == {<<>>, [k \in {"app"} |-> "x"]}
PodSelectors == {[k \in {"app"} |-> "x"]}
\* label maps of namespaces, with the selectors that test them
NsLabelSets == {<<>>, [k \in {"team"} |-> "t"]}
NsSelectors == {[k \in {"team"} |-> "t"]}

\* matchLabels(podLabels, selector): both optional
matchLabels(podLabels, selector) ==
  IF selector = None \/ DOMAIN selector[1] = {} THEN TRUE
  ELSE IF podLabels = None THEN FALSE
  ELSE \A k \in DOMAIN selector[1] :
         k \in DOMAIN podLabels[1] /\ podLabels[1][k] = selector[1][k]

\* nsMatchLabels(nsLabels, selector): both optional
nsMatchLabels(nsLabels, selector) ==
  IF selector = None \/ DOMAIN selector[1] = {} THEN TRUE
  ELSE IF nsLabels = None THEN FALSE
  ELSE \A k \in DOMAIN selector[1] :
         k \in DOMAIN nsLabels[1] /\ nsLabels[1][k] = selector[1][k]

\* ports of an ingress rule: a number, or a name (0 stands for a named port)
NamedPort == 0
RulePorts == {<<>>, <<80>>, <<81>>, <<NamedPort>>}
\* from entries: podSelector.matchLabels and namespaceSelector.matchLabels,
\* and whether one of the two selectors carries matchExpressions
FromEntries ==
  {[podSelector |-> ps, namespaceSelector |-> nss, matchExpressions |-> ex] :
     ps \in {None} \cup {Some(x) : x \in PodSelectors},
     nss \in {None} \cup {Some(x) : x \in NsSelectors},
     ex \in BOOLEAN}

\* the ingress rules a policy may list when k more objects may be returned
RECURSIVE RuleLists(_)
RuleLists(k) ==
  {<<>>} \cup
  UNION {{<<rule>> \o rest : rest \in RuleLists(k - 1 - Len(rule.from))} :
           rule \in IF k = 0 THEN {}
                    ELSE {[ports |-> ps, from |-> fr] :
                            ps \in RulePorts, fr \in SeqsUpTo(FromEntries, k - 1)}}

\* spec.ingress: absent, or a list of rules
IngressFields(k) ==
  {[listed |-> FALSE, rules |-> <<>>]} \cup {[listed |-> TRUE, rules |-> r] : r \in RuleLists(k)}

RECURSIVE ruleCost(_)
ruleCost(rules) ==
  IF rules = <<>> THEN 0 ELSE 1 + Len(Head(rules).from) + ruleCost(Tail(rules))

\* the listings of NetworkPolicies when k more objects may be returned;
\* podSelector is spec.podSelector.matchLabels, matchExpressions tells whether
\* spec.podSelector carries matchExpressions
RECURSIVE NetworkPolicyLists(_, _)
NetworkPolicyLists(i, k) ==
  {<<>>} \cup
  UNION {{<<p>> \o rest : rest \in NetworkPolicyLists(i + 1, k - 1 - ruleCost(p.ingress.rules))} :
           p \in IF k = 0 THEN {}
                 ELSE {[name |-> <<"np", ToString(i)>>, policyTypes |-> pt,
                        podSelector |-> sel, matchExpressions |-> ex, ingress |-> ing] :
                         pt \in {<<"Ingress">>, <<"Egress">>},
                         sel \in {None} \cup {Some(x) : x \in PodSelectors},
                         ex \in BOOLEAN,
                         ing \in IngressFields(k - 1)}}

\* a faulty variant of portAllowed: every port list passes
portAllowedAlways(ports, destPort) == TRUE

\* rule.ports.some(...): a numeric port must equal destPort, any other passes
portAllowed(ports, destPort) ==
  \E i \in DOMAIN ports : ports[i] = NamedPort \/ ports[i] = destPort

\* the loop over a rule's from entries: the note of the first entry that
\* allows the source, "" when none does
RECURSIVE fromNote(_, _, _)
fromNote(fromArr, srcPodLabels, srcNsLabels) ==
  IF fromArr = <<>> THEN ""
  ELSE LET fr == Head(fromArr)
       IN IF fr.podSelector # None /\ matchLabels(srcPodLabels, fr.podSelector)
          THEN "ALLOW: ingress rule matches source podSelector."
          ELSE IF fr.namespaceSelector # None /\ nsMatchLabels(srcNsLabels, fr.namespaceSelector)
          THEN "ALLOW: ingress rule matches source namespaceSelector."
          ELSE IF /\ fr.namespaceSelector # None /\ fr.podSelector # None
                  /\ nsMatchLabels(srcNsLabels, fr.namespaceSelector)
                  /\ matchLabels(srcPodLabels, fr.podSelector)
          THEN "ALLOW: ingress rule matches both namespaceSelector and podSelector."
          ELSE fromNote(Tail(fromArr), srcPodLabels, srcNsLabels)

\* the loop over the ingress rules: the note of the first rule that allows
\* the source, "" when none does
RECURSIVE rulesNote(_, _, _, _)
rulesNote(rules, destPort, srcPodLabels, srcNsLabels) ==
  IF rules = <<>> THEN ""
  ELSE LET rule == Head(rules)
           rest == rulesNote(Tail(rules), destPort, srcPodLabels, srcNsLabels)
           entries == fromNote(rule.from, srcPodLabels, srcNsLabels)
       IN IF /\ destPort # None /\ destPort[1] # 0 /\ rule.ports # <<>>
             /\ ~portAllowed(rule.ports, destPort[1])
          THEN rest
          ELSE IF rule.from = <<>>
          THEN "ALLOW: ingress rule allows all sources (no 'from' restrictions)."
          ELSE IF entries # "" THEN entries
          ELSE rest

\* pt.includes("Ingress") || ingressRules !== undefined
hasIngressType(p) ==
  (\E i \in DOMAIN p.policyTypes : p.policyTypes[i] = "Ingress") \/ p.ingress.listed

\* a faulty variant of denyAllIngress: an empty rule list is not recognised
denyAllIngressNever(p) == FALSE

\* hasIngressType && Array.isArray(ingressRules) && ingressRules.length === 0
denyAllIngress(p) == hasIngressType(p) /\ p.ingress.listed /\ Len(p.ingress.rules) = 0

\* the finding of one selecting policy; allowFromSource is "true", "false" or
\* "undefined" (the field is absent)
findingOf(p, podName, srcPodName, destPort, srcPodLabels, srcNsLabels) ==
  LET matched == rulesNote(p.ingress.rules, destPort, srcPodLabels, srcNsLabels)
      base == [policy |-> p.name, selectsDestinationPod |-> TRUE,
               policyTypes |-> p.policyTypes, denyAllIngress |-> denyAllIngress(p),
               allowFromSource |-> "undefined",
               note |-> <<"NetworkPolicy selects destination pod ">> \o podName \o <<".">>]
  IN IF ~(OrElse(srcPodName, <<>>) # <<>> /\ hasIngressType(p)) THEN base
     ELSE IF denyAllIngress(p)
     THEN [base EXCEPT !.allowFromSource = "false",
             !.note = <<"DENY: policy has Ingress with empty rules (deny-all ingress).">>]
     ELSE IF ~p.ingress.listed \/ Len(p.ingress.rules) = 0
     THEN [base EXCEPT !.note =
             <<"Policy has Ingress type but rules are not explicitly listed; cannot fully evaluate.">>]
     ELSE IF matched # ""
     THEN [base EXCEPT !.allowFromSource = "true", !.note = Some(matched)]
     ELSE [base EXCEPT !.allowFromSource = "false",
             !.note = <<"POTENTIAL DENY: no ingress rule matched source pod/namespace (may block traffic).">>]

\* the loop over pols.slice(0, maxPolicies)
RECURSIVE findingsOf(_, _, _, _, _, _, _)
findingsOf(pols, podLabels, podName, srcPodName, destPort, srcPodLabels, srcNsLabels) ==
  IF pols = <<>> THEN <<>>
  ELSE (IF matchLabels(Some(podLabels), Head(pols).podSelector)
        THEN <<findingOf(Head(pols), podName, srcPodName, destPort, srcPodLabels, srcNsLabels)>>
        ELSE <<>>)
       \o findingsOf(Tail(pols), podLabels, podName, srcPodName, destPort, srcPodLabels,
                     srcNsLabels)

\* pols.slice(0, n)
slice(xs, n) == SubSeq(xs, 1, IF n < Len(xs) THEN n ELSE Len(xs))

\* the evaluator before it is called
IdlePolicyQuery ==
  [pc |-> "idle", podLabels |-> <<>>, podName |-> <<>>, srcPodName |-> undefined,
   destPort |-> None, maxPolicies |-> DefaultMaxPolicies, srcPodLabels |-> None,
   srcNsLabels |-> None, pols |-> <<>>, findings |-> <<>>]

\* discoverNetworkPoliciesForTraffic is called: destPod and opts
discoverNetworkPoliciesForTraffic ==
  /\ np.pc = "idle"
  /\ \E podLabels \in PodLabelSets, srcPodName \in {undefined, <<>>, <<"s">>},
        destPort \in {None, Some(80)}, maxPolicies \in {None, Some(1)} :
       np' = [np EXCEPT
                !.pc = IF OrElse(srcPodName, <<>>) # <<>> THEN "readSourcePod"
                       ELSE "listNamespacedNetworkPolicy",
                !.podLabels = podLabels, !.podName = PodName(1),
                !.srcPodName = srcPodName, !.destPort = destPort,
                !.maxPolicies = IF maxPolicies = None THEN DefaultMaxPolicies
                                ELSE maxPolicies[1]]
  /\ UNCHANGED <<trafficVars, diagram, imp, chatVars, builderVars>>

\* the source pod's labels: a failed read is ignored
readSourcePod ==
  /\ np.pc = "readSourcePod"
  /\ \E outcome \in {"ok"} \cup Failures :
       IF outcome # "ok" THEN np' = [np EXCEPT !.pc = "readSourceNamespace"]
       ELSE \E labels \in PodLabelSets :
              np' = [np EXCEPT !.pc = "readSourceNamespace", !.srcPodLabels = Some(labels)]
  /\ UNCHANGED <<trafficVars, diagram, imp, chatVars, builderVars>>

\* the source namespace's labels: a failed read is ignored
readSourceNamespace ==
  /\ np.pc = "readSourceNamespace"
  /\ \E outcome \in {"ok"} \cup Failures :
       IF outcome # "ok" THEN np' = [np EXCEPT !.pc = "listNamespacedNetworkPolicy"]
       ELSE \E labels \in NsLabelSets :
              np' = [np EXCEPT !.pc = "listNamespacedNetworkPolicy",
                               !.srcNsLabels = Some(labels)]
  /\ UNCHANGED <<trafficVars, diagram, imp, chatVars, builderVars>>

\* the policies of the namespace are listed and evaluated
listNamespacedNetworkPolicy ==
  /\ np.pc = "listNamespacedNetworkPolicy"
  /\ \E outcome \in {"ok"} \cup Failures :
       IF outcome # "ok" THEN np' = [np EXCEPT !.pc = "failed"]
       ELSE \E pols \in NetworkPolicyLists(1, MaxPolicyObjects) :
              np' = [np EXCEPT
                       !.pc = "done", !.pols = pols,
                       !.findings = findingsOf(slice(pols, np.maxPolicies), np.podLabels,
                                               np.podName, np.srcPodName, np.destPort,
                                               np.srcPodLabels, np.srcNsLabels)]
  /\ UNCHANGED <<trafficVars, diagram, imp, chatVars, builderVars>>

----------------------------------------------------------------------------
(* The impact classifier: analyzeImpact, its rules and the reverse lookup *)

\* names a pod template may refer to: the query's target name and another
TargetName == <<"cm">>
RefNames == {TargetName, <<"x">>}

\* spec.volumes[]: one source each; a projected volume lists sources
Volumes ==
  {[name |-> <<"v">>, source |-> src, ref |-> n, sources |-> <<>>] :
     src \in {"configMap", "secret", "persistentVolumeClaim"}, n \in RefNames}
  \cup
  {[name |-> <<"v">>, source |-> "projected", ref |-> <<>>, sources |-> srcs] :
     srcs \in {<<[source |-> "configMap", ref |-> TargetName]>>,
               <<[source |-> "secret", ref |-> TargetName]>>}}
\* containers[].envFrom[] and containers[].env[]
EnvFroms == {[source |-> src, ref |-> TargetName] : src \in {"configMapRef", "secretRef"}}
Envs == {[source |-> src, ref |-> TargetName] : src \in {"configMapKeyRef", "secretKeyRef", "value"}}

\* the pod templates a workload may have when k more objects may be returned
PodSpecs(k) ==
  {[volumes |-> vs, containers |-> <<[name |-> <<"c">>, envFrom |-> ef, env |-> ev]>>,
    initContainers |-> ic] :
     vs \in SeqsUpTo(Volumes, IF k > 0 THEN 1 ELSE 0),
     ef \in SeqsUpTo(EnvFroms, IF k > 0 THEN 1 ELSE 0),
     ev \in SeqsUpTo(Envs, IF k > 0 THEN 1 ELSE 0),
     ic \in {<<>>} \cup (IF k > 0 THEN {<<[name |-> <<"i">>, envFrom |-> <<e>>, env |-> <<>>]>> :
                                          e \in EnvFroms}
                         ELSE {})}

\* what a pod template counts
specCost(spec) ==
  Len(spec.volumes) + Len(spec.containers[1].envFrom) + Len(spec.containers[1].env)
  + 2 * Len(spec.initContainers)

\* the listings of one workload kind when k more objects may be returned
RECURSIVE WorkloadLists(_, _)
WorkloadLists(i, k) ==
  {<<>>} \cup
  UNION {{<<w>> \o rest : rest \in WorkloadLists(i + 1, k - 1 - specCost(w.spec))} :
           w \in IF k = 0 THEN {}
                 ELSE {[name |-> <<"w", ToString(i)>>, spec |-> sp] :
                         sp \in {x \in PodSpecs(k - 1) : specCost(x) <= k - 1}}}

RECURSIVE workloadCost(_)
workloadCost(items) ==
  IF items = <<>> THEN 0 ELSE 1 + specCost(Head(items).spec) + workloadCost(Tail(items))

\* extractRefsFromPodSpec: the references of the volumes
RECURSIVE volumeRefs(_)
volumeRefs(volumes) ==
  IF volumes = <<>> THEN <<>>
  ELSE LET v == Head(volumes)
           projected(src) ==
             IF src.source = "configMap"
             THEN [kind |-> <<"ConfigMap">>, name |-> src.ref,
                   refType |-> <<"projected:">> \o v.name]
             ELSE [kind |-> <<"Secret">>, name |-> src.ref,
                   refType |-> <<"projected:">> \o v.name]
       IN (CASE v.source = "configMap" ->
                  <<[kind |-> <<"ConfigMap">>, name |-> v.ref, refType |-> <<"volume:">> \o v.name]>>
             [] v.source = "secret" ->
                  <<[kind |-> <<"Secret">>, name |-> v.ref, refType |-> <<"volume:">> \o v.name]>>
             [] v.source = "persistentVolumeClaim" ->
                  <<[kind |-> <<"PersistentVolumeClaim">>, name |-> v.ref,
                     refType |-> <<"volume:">> \o v.name]>>
             [] OTHER -> [i \in DOMAIN v.sources |-> projected(v.sources[i])])
          \o volumeRefs(Tail(volumes))

\* extractRefsFromPodSpec: the envFrom entries of one container
RECURSIVE envFromRefs(_, _)
envFromRefs(c, envFrom) ==
  IF envFrom = <<>> THEN <<>>
  ELSE <<[kind |-> IF Head(envFrom).source = "configMapRef"
                   THEN <<"ConfigMap">> ELSE <<"Secret">>,
          name |-> Head(envFrom).ref, refType |-> <<"envFrom:">> \o c.name]>>
       \o envFromRefs(c, Tail(envFrom))

\* extractRefsFromPodSpec: the env entries of one container
RECURSIVE envRefs(_, _)
envRefs(c, env) ==
  IF env = <<>> THEN <<>>
  ELSE (IF Head(env).source = "value" THEN <<>>
        ELSE <<[kind |-> IF Head(env).source = "configMapKeyRef"
                         THEN <<"ConfigMap">> ELSE <<"Secret">>,
                name |-> Head(env).ref, refType |-> <<"env:">> \o c.name]>>)
       \o envRefs(c, Tail(env))

RECURSIVE containerRefs(_)
containerRefs(containers) ==
  IF containers = <<>> THEN <<>>
  ELSE envFromRefs(Head(containers), Head(containers).envFrom)
       \o envRefs(Head(containers), Head(containers).env)
       \o containerRefs(Tail(containers))

extractRefsFromPodSpec(spec) ==
  volumeRefs(spec.volumes) \o containerRefs(spec.containers \o spec.initContainers)

\* matches(ref, target): the ref carries the lookup's namespace
matches(ref, target) == ref.kind = target.kind /\ ref.name = target.name

\* the results one workload contributes: one per matching reference
RECURSIVE matchingRefs(_, _)
matchingRefs(refs, target) ==
  IF refs = <<>> THEN <<>>
  ELSE (IF matches(Head(refs), target) THEN <<Head(refs)>> ELSE <<>>)
       \o matchingRefs(Tail(refs), target)

\* the loop over the items of one listing
RECURSIVE workloadResults(_, _, _)
workloadResults(kind, items, target) ==
  IF items = <<>> THEN <<>>
  ELSE LET refs == matchingRefs(extractRefsFromPodSpec(Head(items).spec), target)
       IN [i \in DOMAIN refs |->
             [kind |-> kind, name |-> Head(items).name, namespace |-> target.namespace,
              refType |-> refs[i].refType]]
          \o workloadResults(kind, Tail(items), target)

\* dedupe: the first entry of every kind|namespace|name
RECURSIVE dedupe(_)
dedupe(arr) ==
  IF arr = <<>> THEN <<>>
  ELSE LET init == dedupe(SubSeq(arr, 1, Len(arr) - 1))
           last == arr[Len(arr)]
       IN IF \E i \in DOMAIN init :
               /\ init[i].kind = last.kind /\ init[i].namespace = last.namespace
               /\ init[i].name = last.name
          THEN init ELSE Append(init, last)

\* consumers.map(...): the impacted resources of a rule with one severity
impactedResources(consumers, severity) ==
  [i \in DOMAIN consumers |->
     [kind |-> consumers[i].kind, name |-> consumers[i].name,
      namespace |-> consumers[i].namespace, impactType |-> consumers[i].refType,
      severity |-> severity]]

\* A summary is a text whose words "Deleting", "deleted" and "Updating" are
\* atoms of their own, the stretches between them one atom each.

\* the result analyzeConfigMapImpact builds from the consumers it found
analyzeConfigMapImpact(ctx, consumers) ==
  [action |-> ctx.action, changeSummary |-> ctx.changeSummary, target |-> ctx.target,
   severity |-> IF Len(consumers) # 0 THEN "MEDIUM" ELSE "NONE",
   summary |-> IF Len(consumers) # 0
               THEN <<"Deleting", " this ConfigMap will restart dependent pods. Applications may fail to start if configuration is required.">>
               ELSE <<"No workloads reference this ConfigMap.">>,
   impactedResources |-> impactedResources(consumers, "MEDIUM")]

\* a faulty variant of analyzeSecretImpact: a Secret rated as a ConfigMap is
analyzeSecretImpactAsConfigMap(ctx, consumers) == analyzeConfigMapImpact(ctx, consumers)

\* the result analyzeSecretImpact builds from the consumers it found
analyzeSecretImpact(ctx, consumers) ==
  [action |-> ctx.action, changeSummary |-> ctx.changeSummary, target |-> ctx.target,
   severity |-> IF Len(consumers) # 0 THEN "HIGH" ELSE "NONE",
   summary |-> IF Len(consumers) # 0
               THEN <<"Deleting", " this Secret will cause authentication or startup failures in dependent workloads.">>
               ELSE <<"No workloads reference this Secret.">>,
   impactedResources |-> impactedResources(consumers, "HIGH")]

\* analyzePVCImpact: a fixed result, no lookup
analyzePVCImpact(ctx) ==
  [action |-> ctx.action, changeSummary |-> ctx.changeSummary, target |-> ctx.target,
   severity |-> "HIGH",
   summary |-> <<"Pods using this PVC will fail to start or lose storage access.">>,
   impactedResources |->
     <<[kind |-> <<"Pod">>, name |-> <<"*">>,
        namespace |-> IF ctx.target.namespace = undefined THEN NsDefault
                      ELSE ctx.target.namespace,
        impactType |-> <<"StorageUnavailable">>, severity |-> "HIGH"]>>]

\* analyzePVImpact: a fixed result, no lookup; its entry has no namespace
analyzePVImpact(ctx) ==
  [action |-> ctx.action, changeSummary |-> ctx.changeSummary, target |-> ctx.target,
   severity |-> "HIGH",
   summary |-> <<"Deleting", " this PV breaks the bound PVC and all consuming pods.">>,
   impactedResources |->
     <<[kind |-> <<"PersistentVolumeClaim">>, name |-> <<"*">>, namespace |-> undefined,
        impactType |-> <<"VolumeDetached">>, severity |-> "HIGH"]>>]

\* changeSummary ? `Updating this K (${changeSummary}) rest` : "Updating this K rest"
updating(ctx, kind, rest) ==
  IF ctx.changeSummary # undefined /\ ctx.changeSummary # <<>>
  THEN <<"Updating", " this " \o kind \o " (">> \o ctx.changeSummary \o <<")">> \o rest
  ELSE <<"Updating", " this " \o kind>> \o rest

\* a faulty variant of serviceSeverity: the routes do not count
serviceSeverityOfWorkloads(routes, backedWorkloads) ==
  IF Len(backedWorkloads) > 0 THEN "HIGH" ELSE "LOW"

\* analyzeServiceImpact's severity: routes are the Ingresses and the
\* VirtualServices that refer to the Service
serviceSeverity(routes, backedWorkloads) ==
  IF Len(routes) > 0 THEN "CRITICAL"
  ELSE IF Len(backedWorkloads) > 0 THEN "HIGH" ELSE "LOW"

\* the result analyzeServiceImpact builds from its three lookups
analyzeServiceImpact(ctx, routes, backedWorkloads) ==
  LET impacted == impactedResources(routes, "CRITICAL")
                  \o impactedResources(backedWorkloads, "HIGH")
  IN [action |-> ctx.action, changeSummary |-> ctx.changeSummary, target |-> ctx.target,
      severity |-> serviceSeverity(routes, backedWorkloads),
      summary |->
        IF ctx.action = <<"delete">>
        THEN (IF Len(impacted) # 0
              THEN <<"Deleting", " this Service will break routing rules (Ingress/VirtualService) and stop traffic from reaching workloads behind the Service selector.">>
              ELSE <<"Deleting", " this Service removes the stable service endpoint; no Ingress/VirtualService routes found and no selector-backed workloads detected.">>)
        ELSE updating(ctx, "Service",
               <<" may change which pods receive traffic (selector/ports). Routing rules remain, but traffic distribution could change.">>),
      impactedResources |-> impacted]

\* the result analyzeIngressImpact builds from the backend services
analyzeIngressImpact(ctx, svcs) ==
  [action |-> ctx.action, changeSummary |-> ctx.changeSummary, target |-> ctx.target,
   severity |-> "HIGH",
   summary |->
     IF ctx.action = <<"delete">>
     THEN <<"Deleting", " this Ingress will remove external HTTP(S) routing to its backend services.">>
     ELSE updating(ctx, "Ingress",
            <<" will change external routing behavior to backend services.">>),
   impactedResources |-> impactedResources(svcs, "HIGH")]

\* the result analyzeVirtualServiceImpact builds from gateways and services
analyzeVirtualServiceImpact(ctx, gws, svcs) ==
  [action |-> ctx.action, changeSummary |-> ctx.changeSummary, target |-> ctx.target,
   severity |-> "CRITICAL",
   summary |->
     IF ctx.action = <<"delete">>
     THEN <<"Deleting", " this VirtualService will remove routing rules, and traffic may stop reaching destination services via the referenced gateways.">>
     ELSE updating(ctx, "VirtualService",
            <<" changes traffic routing behavior (e.g., weights/matches). No resources are ",
              "deleted", "; only routing distribution changes.">>),
   impactedResources |-> impactedResources(gws, "CRITICAL") \o impactedResources(svcs, "CRITICAL")]

\* the result analyzeGatewayImpact builds from the VirtualServices bound to it
analyzeGatewayImpact(ctx, bound) ==
  [action |-> ctx.action, changeSummary |-> ctx.changeSummary, target |-> ctx.target,
   severity |-> IF Len(bound) # 0 THEN "CRITICAL" ELSE "HIGH",
   summary |->
     IF ctx.action = <<"delete">>
     THEN (IF Len(bound) # 0
           THEN <<"Deleting", " this Gateway will break ingress traffic handled by VirtualServices that reference it.">>
           ELSE <<"Deleting", " this Gateway will remove an ingress listener; no VirtualServices in the same namespace explicitly reference it.">>)
     ELSE updating(ctx, "Gateway",
            <<" may alter listeners/hosts/tls settings and change which traffic is accepted.">>),
   impactedResources |-> impactedResources(bound, "CRITICAL")]

\* the Ingresses a namespace may hold, as the impact lookups read them: the
\* default backend's service and the services of the rule paths (rules
\* without host, paths without path)
ImpactIngresses ==
  {[named |-> TRUE, defaultBackend |-> undefined, paths |-> <<>>],
   [named |-> TRUE, defaultBackend |-> TargetName, paths |-> <<>>],
   [named |-> TRUE, defaultBackend |-> undefined, paths |-> <<TargetName>>],
   [named |-> TRUE, defaultBackend |-> TargetName, paths |-> <<<<"x">>, TargetName>>],
   [named |-> FALSE, defaultBackend |-> TargetName, paths |-> <<>>]}

\* the VirtualServices a namespace may hold: the destination hosts of the
\* http routes and the gateways
ImpactVirtualServices ==
  {[named |-> TRUE, hosts |-> <<>>, gateways |-> <<>>],
   [named |-> TRUE, hosts |-> <<TargetName>>, gateways |-> <<TargetName>>],
   [named |-> TRUE, hosts |-> <<Fqdn(TargetName, NsN), <<"x">>>>,
    gateways |-> <<NsN \o <<"/">> \o TargetName>>],
   [named |-> TRUE, hosts |-> <<TargetName, TargetName>>,
    gateways |-> <<TargetName, NsN \o <<"/">> \o TargetName>>],
   [named |-> FALSE, hosts |-> <<TargetName>>, gateways |-> <<TargetName>>]}

\* the entries of xs that satisfy keep, in order
keepIf(xs, keep(_)) == SelectSeq(xs, keep)

\* ingressReferencesService: why the Ingress refers to the Service
ingressReferencesService(ing, svcName) ==
  (IF ing.defaultBackend = svcName THEN <<<<"defaultBackend">>>> ELSE <<>>)
  \o [i \in DOMAIN keepIf(ing.paths, LAMBDA b : b = svcName) |->
        <<"rule:", "*", " path:", "*">>]

\* virtualServiceReferencesService: the destination hosts that are a
\* spelling of the Service (name, name.ns, name.ns.svc, name.ns.svc.cluster.local)
virtualServiceReferencesService(vs, svcName, ns) ==
  LET candidates == {svcName, svcName \o <<".">> \o ns,
                     svcName \o <<".">> \o ns \o <<".", "svc">>, Fqdn(svcName, ns)}
      hits == keepIf(vs.hosts, LAMBDA h : h \in candidates)
  IN [i \in DOMAIN hits |-> <<"http:">> \o hits[i]]

\* the loop of a reverse lookup over listed items: one entry for every named
\* item that refType (a string, <<>> when the item does not refer) accepts
lookupEntries(items, kind, name(_), namespace, refType(_)) ==
  LET all == [i \in DOMAIN items |->
                [kind |-> kind, name |-> name(i), namespace |-> namespace,
                 refType |-> refType(items[i]), named |-> items[i].named]]
      out == keepIf(all, LAMBDA e : e.named /\ e.refType # <<>>)
  IN [i \in DOMAIN out |->
        [kind |-> out[i].kind, name |-> out[i].name, namespace |-> out[i].namespace,
         refType |-> out[i].refType]]

\* findIngressesReferencingService on the listed Ingresses
ingressesReferencingService(items, target) ==
  lookupEntries(items, <<"Ingress">>, IngName, target.namespace,
    LAMBDA ing : LET why == ingressReferencesService(ing, target.name)
                 IN IF why = <<>> THEN <<>>
                    ELSE <<"backendService:">> \o join(why, <<",">>))

\* findVirtualServicesReferencingService on the listed VirtualServices
virtualServicesReferencingService(items, target) ==
  lookupEntries(items, <<"VirtualService">>, VsName, target.namespace,
    LAMBDA vs : LET hits == virtualServiceReferencesService(vs, target.name, target.namespace)
                IN IF hits = <<>> THEN <<>>
                   ELSE <<"destHost:">> \o join(hits, <<",">>))

\* findVirtualServicesReferencingGateway on the listed VirtualServices
virtualServicesReferencingGateway(items, target) ==
  LET gwShort == target.name
      gwQualified == target.namespace \o <<"/">> \o target.name
      includes(gws, g) == \E i \in DOMAIN gws : gws[i] = g
  IN lookupEntries(items, <<"VirtualService">>, VsName, target.namespace,
       LAMBDA vs : IF includes(vs.gateways, gwShort) \/ includes(vs.gateways, gwQualified)
                   THEN <<"gatewayRef:">>
                        \o (IF includes(vs.gateways, gwQualified) THEN gwQualified ELSE gwShort)
                   ELSE <<>>)

\* [...new Set(names)].map(...): one entry per distinct name, in first-seen order
entriesOf(names, kind, namespace, refType) ==
  [i \in DOMAIN names |->
     [kind |-> kind, name |-> names[i], namespace |-> namespace, refType |-> refType]]

\* findServicesReferencedByIngress on the Ingress read
servicesReferencedByIngress(ing, namespace) ==
  entriesOf(distinct((IF ing.defaultBackend # undefined THEN <<ing.defaultBackend>> ELSE <<>>)
                     \o ing.paths),
            <<"Service">>, namespace, <<"ingressBackend">>)

\* findServicesReferencedByVirtualService on the VirtualService read
servicesReferencedByVirtualService(vs, namespace) ==
  entriesOf(distinct(vs.hosts), <<"Service">>, namespace, <<"virtualServiceDestination">>)

\* findGatewaysReferencedByVirtualService on the VirtualService read: the
\* gateways as written, repetitions kept
gatewaysReferencedByVirtualService(vs, namespace) ==
  entriesOf(vs.gateways, <<"Gateway">>, namespace, <<"virtualServiceGateway">>)

\* metadata.ownerReferences of the pods a Service selects
PodOwners ==
  {<<>>,
   <<[kind |-> <<"ReplicaSet">>, name |-> <<"r">>, controller |-> TRUE]>>,
   <<[kind |-> <<"ReplicaSet">>, name |-> <<"q">>, controller |-> TRUE]>>,
   <<[kind |-> <<"StatefulSet">>, name |-> <<"s">>, controller |-> FALSE]>>,
   <<[kind |-> <<"Job">>, name |-> <<"j">>, controller |-> FALSE],
     [kind |-> <<"ReplicaSet">>, name |-> <<"r">>, controller |-> TRUE]>>}

\* the pods a listing returns when at most k objects may be returned
SelectedPods(k) ==
  UNION {{[i \in 1..n |-> [name |-> PodName(i), owners |-> os[i]]] : os \in [1..n -> PodOwners]} :
           n \in 0..k}

\* what readNamespacedReplicaSet may give: a ReplicaSet owned by a
\* Deployment, one that is not, or a failure
ReplicaSetAnswers == {"Deployment", "none", "403"}

\* a faulty variant of controllerOwner: the first owner is taken
firstOwner(owners) == owners[1]

\* owners.find((o) => o.controller) ?? owners[0]
controllerOwner(owners) ==
  IF \E i \in DOMAIN owners : owners[i].controller
  THEN owners[CHOOSE i \in DOMAIN owners :
                /\ owners[i].controller
                /\ \A j \in 1..(i - 1) : ~owners[j].controller]
  ELSE owners[1]

\* a faulty variant of resolveTopWorkloadForPod: nothing is put in the cache
resolveTopWorkloadForPodUncached(p, rsToDeploymentCache, answer) ==
  IF p.owners = <<>>
  THEN [top |-> [kind |-> <<"Pod">>, name |-> p.name], cache |-> rsToDeploymentCache,
        read |-> <<>>]
  ELSE LET o == controllerOwner(p.owners)
       IN IF o.kind # <<"ReplicaSet">>
          THEN [top |-> [kind |-> o.kind, name |-> o.name], cache |-> rsToDeploymentCache,
                read |-> <<>>]
          ELSE [top |-> IF answer = "Deployment"
                        THEN [kind |-> <<"Deployment">>, name |-> <<"d">>]
                        ELSE [kind |-> <<"ReplicaSet">>, name |-> o.name],
                cache |-> rsToDeploymentCache,
                read |-> <<[rs |-> o.name, answer |-> answer]>>]

\* resolveTopWorkloadForPod: the top-level owner of a pod, the cache after
\* it and the ReplicaSet read it issued, if any; answer is what that read gives
resolveTopWorkloadForPod(p, rsToDeploymentCache, answer) ==
  IF p.owners = <<>>
  THEN [top |-> [kind |-> <<"Pod">>, name |-> p.name], cache |-> rsToDeploymentCache,
        read |-> <<>>]
  ELSE LET o == controllerOwner(p.owners)
           cached == keepIf(rsToDeploymentCache, LAMBDA e : e.rs = o.name)
           top == IF answer = "Deployment"
                  THEN [kind |-> <<"Deployment">>, name |-> <<"d">>]
                  ELSE [kind |-> <<"ReplicaSet">>, name |-> o.name]
       IN IF o.kind # <<"ReplicaSet">>
          THEN [top |-> [kind |-> o.kind, name |-> o.name], cache |-> rsToDeploymentCache,
                read |-> <<>>]
          ELSE IF cached # <<>>
          THEN [top |-> cached[1].top, cache |-> rsToDeploymentCache, read |-> <<>>]
          ELSE [top |-> top, cache |-> Append(rsToDeploymentCache, [rs |-> o.name, top |-> top]),
                read |-> <<[rs |-> o.name, answer |-> answer]>>]

\* the loop of findWorkloadsBackedByService over the selected pods: the owner
\* each pod resolves to, in the order of the pods
RECURSIVE resolvedOwners(_, _, _)
resolvedOwners(pods, answers, cache) ==
  IF pods = <<>> THEN <<>>
  ELSE LET r == resolveTopWorkloadForPod(Head(pods), cache, Head(answers))
       IN <<r.top>> \o resolvedOwners(Tail(pods), Tail(answers), r.cache)

\* the same loop: the readNamespacedReplicaSet calls it issues, in order
RECURSIVE replicaSetReads(_, _, _)
replicaSetReads(pods, answers, cache) ==
  IF pods = <<>> THEN <<>>
  ELSE LET r == resolveTopWorkloadForPod(Head(pods), cache, Head(answers))
       IN r.read \o replicaSetReads(Tail(pods), Tail(answers), r.cache)

\* a faulty variant of collapsePods: every pod gets an entry of its own
RECURSIVE collapsePodsUnmerged(_, _, _, _)
collapsePodsUnmerged(pods, answers, cache, counts) ==
  IF pods = <<>> THEN counts
  ELSE LET r == resolveTopWorkloadForPod(Head(pods), cache, Head(answers))
       IN collapsePodsUnmerged(Tail(pods), Tail(answers), r.cache,
            Append(counts, [kind |-> r.top.kind, name |-> r.top.name, podCount |-> 1]))

\* the loop of findWorkloadsBackedByService over the selected pods: the pod
\* counts per top-level owner, in first-seen order
RECURSIVE collapsePods(_, _, _, _)
collapsePods(pods, answers, cache, counts) ==
  IF pods = <<>> THEN counts
  ELSE LET r == resolveTopWorkloadForPod(Head(pods), cache, Head(answers))
           existing(c) == c.kind = r.top.kind /\ c.name = r.top.name
       IN collapsePods(Tail(pods), Tail(answers), r.cache,
            IF \E i \in DOMAIN counts : existing(counts[i])
            THEN [i \in DOMAIN counts |->
                    IF existing(counts[i])
                    THEN [counts[i] EXCEPT !.podCount = @ + 1] ELSE counts[i]]
            ELSE Append(counts, [kind |-> r.top.kind, name |-> r.top.name, podCount |-> 1]))

\* findWorkloadsBackedByService on the selected pods
workloadsBackedByService(pods, answers, namespace) ==
  LET counts == collapsePods(pods, answers, <<>>, <<>>)
  IN [i \in DOMAIN counts |->
        [kind |-> counts[i].kind, name |-> counts[i].name, namespace |-> namespace,
         refType |-> <<"serviceSelector pods=">> \o NumStr(counts[i].podCount)]]

\* analyzeImpact's fallthrough for a kind without a rule
noImpactRules(ctx) ==
  [action |-> ctx.action, changeSummary |-> ctx.changeSummary, target |-> ctx.target,
   severity |-> "NONE",
   summary |-> <<"No impact rules defined for this resource type.">>,
   impactedResources |-> <<>>]

NoImpactResult ==
  [action |-> <<>>, changeSummary |-> undefined,
   target |-> [kind |-> <<>>, name |-> <<>>, namespace |-> undefined],
   severity |-> "", summary |-> <<>>, impactedResources |-> <<>>]

\* the classifier before it is called
IdleImpactQuery ==
  [pc |-> "idle",
   ctx |-> [action |-> <<>>, changeSummary |-> undefined,
            target |-> [kind |-> <<>>, name |-> <<>>, namespace |-> undefined]],
   lookup |-> [kind |-> <<>>, name |-> <<>>, namespace |-> <<>>],
   results |-> <<>>, routes |-> <<>>, workloads |-> <<>>, apiCalls |-> {},
   hasSelector |-> FALSE, pods |-> <<>>, owners |-> <<>>, rsReads |-> <<>>,
   objectsLeft |-> MaxWorkloadObjects, result |-> NoImpactResult, error |-> <<>>]

\* the kinds analyzeImpact has a rule for
SupportedKinds ==
  {<<"ConfigMap">>, <<"Secret">>, <<"PersistentVolumeClaim">>, <<"PersistentVolume">>,
   <<"Service">>, <<"Ingress">>, <<"VirtualService">>, <<"Gateway">>}

\* the inputs of analyzeImpact: any field may be absent or empty
ImpactInputs ==
  {[action |-> a, changeSummary |-> cs, kind |-> k, name |-> n, namespace |-> ns] :
     a \in {undefined, <<"update">>},
     cs \in {undefined, <<"c">>},
     k \in {undefined, <<>>, <<"Pod">>} \cup SupportedKinds,
     n \in {undefined, <<>>, TargetName},
     ns \in {undefined, NsN}}

\* the first lookup of the rule of a kind; "done" for a rule without lookup
firstLookup(kind) ==
  IF kind \in {<<"ConfigMap">>, <<"Secret">>} THEN "listNamespacedDeployment"
  ELSE IF kind = <<"Service">> THEN "findIngressesReferencingService"
  ELSE IF kind = <<"Ingress">> THEN "findServicesReferencedByIngress"
  ELSE IF kind = <<"VirtualService">> THEN "findServicesReferencedByVirtualService"
  ELSE IF kind = <<"Gateway">> THEN "findVirtualServicesReferencingGateway"
  ELSE "done"

\* analyzeImpact: the dispatch on the target kind, up to the rule's lookup
analyzeImpact ==
  /\ imp.pc = "idle"
  /\ \E input \in ImpactInputs :
       LET ctx == [action |-> IF input.action = undefined THEN <<"delete">> ELSE input.action,
                   changeSummary |-> input.changeSummary,
                   target |-> [kind |-> input.kind, name |-> input.name,
                               namespace |-> input.namespace]]
       IN IF input.kind \in {<<"ConfigMap">>, <<"Secret">>}
          THEN imp' = [imp EXCEPT
                         !.pc = firstLookup(input.kind), !.ctx = ctx,
                         !.lookup = [kind |-> input.kind, name |-> input.name,
                                     namespace |-> IF input.namespace = undefined
                                                   THEN NsDefault ELSE input.namespace]]
          ELSE IF input.kind \in {<<"Service">>, <<"Ingress">>, <<"VirtualService">>, <<"Gateway">>}
          THEN imp' = [imp EXCEPT
                         !.pc = firstLookup(input.kind), !.ctx = ctx,
                         !.lookup = [kind |-> input.kind, name |-> input.name,
                                     namespace |-> input.namespace]]
          ELSE imp' = [imp EXCEPT
                         !.pc = "done", !.ctx = ctx,
                         !.result = IF input.kind = <<"PersistentVolumeClaim">>
                                    THEN analyzePVCImpact(ctx)
                                    ELSE IF input.kind = <<"PersistentVolume">>
                                    THEN analyzePVImpact(ctx)
                                    ELSE noImpactRules(ctx)]
  /\ UNCHANGED <<trafficVars, diagram, np, chatVars, builderVars>>

\* a listing of findWorkloadsReferencing rejects: the lookup throws
listingFailed(call, outcome) ==
  [imp EXCEPT !.pc = "failed", !.apiCalls = @ \cup {call}, !.error = ErrorOf(outcome)]

\* a listing of findWorkloadsReferencing returns: the loop over its items
listingReturned(call, kind, next, items) ==
  [imp EXCEPT
     !.pc = next, !.apiCalls = @ \cup {call},
     !.objectsLeft = @ - workloadCost(items),
     !.workloads = @ \o [i \in DOMAIN items |->
                           [kind |-> kind, name |-> items[i].name, spec |-> items[i].spec]],
     !.results = @ \o workloadResults(kind, items, imp.lookup)]

\* findWorkloadsReferencing: the Deployments
listNamespacedDeployment ==
  /\ imp.pc = "listNamespacedDeployment"
  /\ \E outcome \in {"ok"} \cup Failures :
       IF outcome # "ok" THEN imp' = listingFailed("listDeployment", outcome)
       ELSE \E items \in WorkloadLists(1, imp.objectsLeft) :
              imp' = listingReturned("listDeployment", <<"Deployment">>, "listNamespacedStatefulSet", items)
  /\ UNCHANGED <<trafficVars, diagram, np, chatVars, builderVars>>

\* findWorkloadsReferencing: the StatefulSets
listNamespacedStatefulSet ==
  /\ imp.pc = "listNamespacedStatefulSet"
  /\ \E outcome \in {"ok"} \cup Failures :
       IF outcome # "ok" THEN imp' = listingFailed("listStatefulSet", outcome)
       ELSE \E items \in WorkloadLists(1, imp.objectsLeft) :
              imp' = listingReturned("listStatefulSet", <<"StatefulSet">>, "listNamespacedDaemonSet", items)
  /\ UNCHANGED <<trafficVars, diagram, np, chatVars, builderVars>>

\* findWorkloadsReferencing: the DaemonSets
listNamespacedDaemonSet ==
  /\ imp.pc = "listNamespacedDaemonSet"
  /\ \E outcome \in {"ok"} \cup Failures :
       IF outcome # "ok" THEN imp' = listingFailed("listDaemonSet", outcome)
       ELSE \E items \in WorkloadLists(1, imp.objectsLeft) :
              imp' = listingReturned("listDaemonSet", <<"DaemonSet">>, "listNamespacedJob", items)
  /\ UNCHANGED <<trafficVars, diagram, np, chatVars, builderVars>>

\* findWorkloadsReferencing: the Jobs
listNamespacedJob ==
  /\ imp.pc = "listNamespacedJob"
  /\ \E outcome \in {"ok"} \cup Failures :
       IF outcome # "ok" THEN imp' = listingFailed("listJob", outcome)
       ELSE \E items \in WorkloadLists(1, imp.objectsLeft) :
              imp' = listingReturned("listJob", <<"Job">>, "dedupe", items)
  /\ UNCHANGED <<trafficVars, diagram, np, chatVars, builderVars>>

\* findWorkloadsReferencing returns dedupe(results); the rule builds its result
impactRule ==
  /\ imp.pc = "dedupe"
  /\ LET consumers == dedupe(imp.results)
     IN imp' = [imp EXCEPT
                  !.pc = "done",
                  !.result = IF imp.lookup.kind = <<"ConfigMap">>
                             THEN analyzeConfigMapImpact(imp.ctx, consumers)
                             ELSE analyzeSecretImpact(imp.ctx, consumers)]
  /\ UNCHANGED <<trafficVars, diagram, np, chatVars, builderVars>>

\* what a call of a routing lookup may do: the rules pass target.namespace
\* on as it is, and the client rejects a call without a namespace
lookupOutcomes ==
  IF imp.lookup.namespace = undefined THEN Failures ELSE {"ok"} \cup Failures

\* a call of a routing lookup rejects: the rule throws
lookupFailed(call, outcome) ==
  [imp EXCEPT !.pc = "failed", !.apiCalls = @ \cup {call}, !.error = ErrorOf(outcome)]

\* analyzeServiceImpact, first lookup: the Ingresses that route to the Service
findIngressesReferencingService ==
  /\ imp.pc = "findIngressesReferencingService"
  /\ \E outcome \in lookupOutcomes :
       IF outcome # "ok" THEN imp' = lookupFailed("listIngress", outcome)
       ELSE \E items \in SeqsUpTo(ImpactIngresses, imp.objectsLeft) :
              imp' = [imp EXCEPT
                        !.pc = "findVirtualServicesReferencingService",
                        !.apiCalls = @ \cup {"listIngress"},
                        !.objectsLeft = @ - Len(items),
                        !.routes = ingressesReferencingService(items, imp.lookup)]
  /\ UNCHANGED <<trafficVars, diagram, np, chatVars, builderVars>>

\* analyzeServiceImpact, second lookup: the VirtualServices that route to it
findVirtualServicesReferencingService ==
  /\ imp.pc = "findVirtualServicesReferencingService"
  /\ \E outcome \in lookupOutcomes :
       IF outcome # "ok" THEN imp' = lookupFailed("listVirtualService", outcome)
       ELSE \E items \in SeqsUpTo(ImpactVirtualServices, imp.objectsLeft) :
              imp' = [imp EXCEPT
                        !.pc = "findWorkloadsBackedByService",
                        !.apiCalls = @ \cup {"listVirtualService"},
                        !.objectsLeft = @ - Len(items),
                        !.routes = @ \o virtualServicesReferencingService(items, imp.lookup)]
  /\ UNCHANGED <<trafficVars, diagram, np, chatVars, builderVars>>

\* analyzeServiceImpact, third lookup and result: the Service is read, the
\* pods of its selector are listed and collapsed to their top-level owners
\* (a ReplicaSet read that fails is caught); without a selector or without
\* pods nothing is backed
findWorkloadsBackedByService ==
  /\ imp.pc = "findWorkloadsBackedByService"
  /\ \E readService \in lookupOutcomes, hasSelector \in BOOLEAN, listPod \in lookupOutcomes :
       IF readService # "ok" THEN imp' = lookupFailed("readService", readService)
       ELSE IF ~hasSelector
       THEN imp' = [imp EXCEPT
                      !.pc = "done", !.apiCalls = @ \cup {"readService"},
                      !.result = analyzeServiceImpact(imp.ctx, imp.routes, <<>>)]
       ELSE IF listPod # "ok"
       THEN imp' = [lookupFailed("listPod", listPod) EXCEPT !.apiCalls = @ \cup {"readService"}]
       ELSE \E pods \in SelectedPods(imp.objectsLeft) :
              \E answers \in [DOMAIN pods -> ReplicaSetAnswers] :
                LET backedWorkloads ==
                      workloadsBackedByService(pods, answers, imp.lookup.namespace)
                IN imp' = [imp EXCEPT
                             !.pc = "done",
                             !.apiCalls = @ \cup {"readService", "listPod"},
                             !.objectsLeft = @ - Len(pods),
                             !.hasSelector = TRUE, !.pods = pods,
                             !.owners = resolvedOwners(pods, answers, <<>>),
                             !.rsReads = replicaSetReads(pods, answers, <<>>),
                             !.results = backedWorkloads,
                             !.result = analyzeServiceImpact(imp.ctx, imp.routes, backedWorkloads)]
  /\ UNCHANGED <<trafficVars, diagram, np, chatVars, builderVars>>

\* analyzeIngressImpact: the Ingress is read for its backend services
findServicesReferencedByIngress ==
  /\ imp.pc = "findServicesReferencedByIngress"
  /\ \E outcome \in lookupOutcomes :
       IF outcome # "ok" THEN imp' = lookupFailed("readIngress", outcome)
       ELSE \E ing \in ImpactIngresses :
              LET svcs == servicesReferencedByIngress(ing, imp.lookup.namespace)
              IN imp' = [imp EXCEPT
                           !.pc = "done", !.apiCalls = @ \cup {"readIngress"},
                           !.results = svcs,
                           !.result = analyzeIngressImpact(imp.ctx, svcs)]
  /\ UNCHANGED <<trafficVars, diagram, np, chatVars, builderVars>>

\* analyzeVirtualServiceImpact, first lookup: the destination services
findServicesReferencedByVirtualService ==
  /\ imp.pc = "findServicesReferencedByVirtualService"
  /\ \E outcome \in lookupOutcomes :
       IF outcome # "ok" THEN imp' = lookupFailed("readVirtualService", outcome)
       ELSE \E vs \in ImpactVirtualServices :
              imp' = [imp EXCEPT
                        !.pc = "findGatewaysReferencedByVirtualService",
                        !.apiCalls = @ \cup {"readVirtualService"},
                        !.results = servicesReferencedByVirtualService(vs, imp.lookup.namespace)]
  /\ UNCHANGED <<trafficVars, diagram, np, chatVars, builderVars>>

\* analyzeVirtualServiceImpact, second lookup and result: the VirtualService
\* is read again for its gateways
findGatewaysReferencedByVirtualService ==
  /\ imp.pc = "findGatewaysReferencedByVirtualService"
  /\ \E outcome \in lookupOutcomes :
       IF outcome # "ok" THEN imp' = lookupFailed("readVirtualServiceAgain", outcome)
       ELSE \E vs \in ImpactVirtualServices :
              LET gws == gatewaysReferencedByVirtualService(vs, imp.lookup.namespace)
              IN imp' = [imp EXCEPT
                           !.pc = "done", !.apiCalls = @ \cup {"readVirtualServiceAgain"},
                           !.routes = gws,
                           !.result = analyzeVirtualServiceImpact(imp.ctx, gws, imp.results)]
  /\ UNCHANGED <<trafficVars, diagram, np, chatVars, builderVars>>

\* analyzeGatewayImpact: the VirtualServices bound to the Gateway
findVirtualServicesReferencingGateway ==
  /\ imp.pc = "findVirtualServicesReferencingGateway"
  /\ \E outcome \in lookupOutcomes :
       IF outcome # "ok" THEN imp' = lookupFailed("listVirtualService", outcome)
       ELSE \E items \in SeqsUpTo(ImpactVirtualServices, imp.objectsLeft) :
              LET bound == virtualServicesReferencingGateway(items, imp.lookup)
              IN imp' = [imp EXCEPT
                           !.pc = "done", !.apiCalls = @ \cup {"listVirtualService"},
                           !.objectsLeft = @ - Len(items),
                           !.routes = bound,
                           !.result = analyzeGatewayImpact(imp.ctx, bound)]
  /\ UNCHANGED <<trafficVars, diagram, np, chatVars, builderVars>>

----------------------------------------------------------------------------
(* The chat participant: chatRequestHandler and the write-approval gate *)

\* const MAX_ITERATIONS = 5
MAX_ITERATIONS == 5

\* What the user types, as the approval parser sees it: the first word, the
\* approval id that follows it (0: none) and whether more text follows. The
\* ids a user can name are the ones shown so far.
UserTexts(ids) ==
  {[verb |-> v, id |-> i, more |-> FALSE] : v \in {"confirm", "Cancel"}, i \in {0} \cup ids}
  \cup {[verb |-> "create", id |-> 0, more |-> TRUE],
        [verb |-> "", id |-> 0, more |-> FALSE]}

\* m[1].toLowerCase() for the first words the model uses
toLowerCase(w) == IF w = "Cancel" THEN "cancel" ELSE w

\* parseApprovalCommand: /^(confirm|cancel)(?:\s+([A-Za-z0-9_-]+))?$/i;
\* action "" stands for undefined (not an approval command)
parseApprovalCommand(userText) ==
  IF toLowerCase(userText.verb) \in {"confirm", "cancel"} /\ ~userText.more
  THEN [action |-> toLowerCase(userText.verb), id |-> userText.id]
  ELSE [action |-> "", id |-> 0]

\* the bundle that stands for undefined
NoBundle == [id |-> 0, ops |-> <<>>]

\* pendingWriteApprovals.get(id)
getBundle(map, id) ==
  IF \E i \in DOMAIN map : map[i].id = id
  THEN map[CHOOSE i \in DOMAIN map : map[i].id = id]
  ELSE NoBundle

\* a faulty variant of latestPendingWriteBundle: the oldest bundle is taken
oldestPendingWriteBundle(map) == IF map = <<>> THEN NoBundle ELSE map[1]

\* latestPendingWriteBundle: the most recently inserted bundle
latestPendingWriteBundle(map) == IF map = <<>> THEN NoBundle ELSE map[Len(map)]

\* a faulty variant of deleteBundle: the bundle stays in the store
deleteBundleNever(map, id) == map

\* pendingWriteApprovals.delete(id)
deleteBundle(map, id) == SelectSeq(map, LAMBDA b : b.id # id)

\* pendingWriteApprovals.set(id, bundle): a present key keeps its place
setBundle(map, bundle) ==
  IF \E i \in DOMAIN map : map[i].id = bundle.id
  THEN [i \in DOMAIN map |-> IF map[i].id = bundle.id THEN bundle ELSE map[i]]
  ELSE Append(map, bundle)

\* the tool calls a planner may return: valid says whether the arguments
\* pass validateCreateOrPatchArgs / validatePatchArgs / validateGetResourceArgs
ReadCalls == {<<>>, <<[tool |-> "getResource", valid |-> TRUE]>>}

WriteCalls ==
  {<<[tool |-> "createResource", valid |-> TRUE]>>,
   <<[tool |-> "patchResource", valid |-> FALSE]>>,
   <<[tool |-> "getResource", valid |-> TRUE], [tool |-> "patchResource", valid |-> TRUE]>>,
   <<[tool |-> "createResource", valid |-> TRUE], [tool |-> "patchResource", valid |-> TRUE]>>}

Plans ==
  {[toolCalls |-> <<>>, done |-> TRUE]}
  \cup {[toolCalls |-> tc, done |-> d] : tc \in ReadCalls \ {<<>>}, d \in BOOLEAN}
  \cup {[toolCalls |-> tc, done |-> TRUE] : tc \in WriteCalls}
\* no plan: the planner's output could not be parsed
NoPlan == [toolCalls |-> <<>>, done |-> FALSE]

isWrite(c) == c.tool = "createResource" \/ c.tool = "patchResource"

\* a faulty variant of writeCalls: no call is recognised as a write
writeCallsNone(toolCalls) == <<>>

\* (plan.toolCalls ?? []).filter(c => createResource || patchResource)
writeCalls(toolCalls) == SelectSeq(toolCalls, isWrite)

\* the writes executeToolCalls sends for the calls it is given, for request r
RECURSIVE executedWrites(_, _)
executedWrites(toolCalls, r) ==
  IF toolCalls = <<>> THEN <<>>
  ELSE (IF isWrite(Head(toolCalls)) /\ Head(toolCalls).valid
        THEN <<[req |-> r, bundle |-> 0, op |-> 0, tool |-> Head(toolCalls).tool]>>
        ELSE <<>>)
       \o executedWrites(Tail(toolCalls), r)

\* a request as it enters the handler
NewRequest(userText) ==
  [pc |-> "kubeConnect", userText |-> userText, outcome |-> "", bundle |-> NoBundle,
   i |-> 0, iteration |-> 0, plan |-> NoPlan, ops |-> <<>>, hasErrors |-> FALSE, asked |-> 0]

\* the request returns: its locals are gone, what it did stays on record
Done(rq, outcome) ==
  [rq EXCEPT !.pc = "done", !.outcome = outcome,
             !.i = 0, !.iteration = 0, !.plan = NoPlan, !.ops = <<>>,
             !.hasErrors = FALSE, !.asked = 0]

\* chatRequestHandler up to its first await: a request arrives; without a
\* language model or without text it returns at once
chatRequestHandler ==
  /\ Len(req) < MaxRequests
  /\ \E userText \in UserTexts(1 .. (nextId - 1)),
        model \in BOOLEAN :
       req' = Append(req,
                IF ~model THEN Done(NewRequest(userText), "noModel")
                ELSE IF userText.verb = "" THEN Done(NewRequest(userText), "help")
                ELSE NewRequest(userText))
  /\ UNCHANGED <<pendingWriteApprovals, nextId, clusterWrites, trafficVars, diagram, np, imp, builderVars>>

\* kubeConnect resolves; the handler runs on to its next await: without a
\* session it returns; an approval command looks the bundle up and deletes
\* it (cancel returns, confirm goes on to apply); other text goes to the planner
kubeConnect ==
  \E r \in DOMAIN req, session \in BOOLEAN :
    /\ req[r].pc = "kubeConnect"
    /\ LET approvalCmd == parseApprovalCommand(req[r].userText)
           bundle == IF approvalCmd.id # 0
                     THEN getBundle(pendingWriteApprovals, approvalCmd.id)
                     ELSE latestPendingWriteBundle(pendingWriteApprovals)
       IN IF ~session
          THEN /\ req' = [req EXCEPT ![r] = Done(@, "noSession")]
               /\ UNCHANGED pendingWriteApprovals
          ELSE IF approvalCmd.action = ""
          THEN /\ req' = [req EXCEPT ![r].pc = "sendJsonOnly"]
               /\ UNCHANGED pendingWriteApprovals
          ELSE IF bundle = NoBundle
          THEN /\ req' = [req EXCEPT ![r] = Done(@, "noPendingApprovals")]
               /\ UNCHANGED pendingWriteApprovals
          ELSE IF approvalCmd.action = "cancel"
          THEN /\ pendingWriteApprovals' = deleteBundle(pendingWriteApprovals, bundle.id)
               /\ req' = [req EXCEPT ![r] = Done([@ EXCEPT !.bundle = bundle], "canceled")]
          ELSE /\ pendingWriteApprovals' = deleteBundle(pendingWriteApprovals, bundle.id)
               /\ req' = [req EXCEPT ![r] = [@ EXCEPT !.pc = "applying", !.bundle = bundle, !.i = 1]]
    /\ UNCHANGED <<nextId, clusterWrites, trafficVars, diagram, np, imp, builderVars>>

\* the confirm branch sends the next operation of the bundle to the cluster
\* (session.createResource / session.patchResource; a failure is recorded in
\* the results and the loop goes on); after the last one the report is sent
applyOp ==
  \E r \in DOMAIN req :
    /\ req[r].pc = "applying"
    /\ LET rq == req[r]
           op == rq.bundle.ops[rq.i]
       IN /\ clusterWrites' = Append(clusterWrites,
                 [req |-> r, bundle |-> rq.bundle.id, op |-> rq.i, tool |-> op.tool])
          /\ req' = [req EXCEPT ![r] = IF rq.i = Len(rq.bundle.ops)
                                       THEN Done(rq, "applied")
                                       ELSE [rq EXCEPT !.i = rq.i + 1]]
    /\ UNCHANGED <<pendingWriteApprovals, nextId, trafficVars, diagram, np, imp, builderVars>>

\* the planner answers (asked counts the times it has been asked):
\* unparsable output ends the request; a plan with write calls goes to the
\* previews, any other plan to executeToolCalls
sendJsonOnly ==
  \E r \in DOMAIN req, plan \in Plans \cup {NoPlan} :
    /\ req[r].pc = "sendJsonOnly"
    /\ req' = [req EXCEPT ![r] =
                 IF plan = NoPlan THEN Done(@, "plannerFailed")
                 ELSE IF Len(writeCalls(plan.toolCalls)) > 0
                 THEN [@ EXCEPT !.pc = "preview", !.plan = plan, !.ops = <<>>, !.i = 1,
                                !.asked = @ + 1, !.hasErrors = FALSE]
                 ELSE [@ EXCEPT !.pc = "executeToolCalls", !.plan = plan, !.asked = @ + 1,
                                !.hasErrors = FALSE]]
    /\ UNCHANGED <<pendingWriteApprovals, nextId, clusterWrites, trafficVars, diagram, np, imp, builderVars>>

\* the next write call of the plan is validated and previewed (previewCreate /
\* previewPatch, which only read): invalid arguments end the request, a preview
\* that throws fails it; after the last preview the bundle is stored under a
\* fresh id and the request returns
preview ==
  \E r \in DOMAIN req, threw \in BOOLEAN :
    /\ req[r].pc = "preview"
    /\ LET rq == req[r]
           calls == writeCalls(rq.plan.toolCalls)
           c == calls[rq.i]
           ops == Append(rq.ops, [tool |-> c.tool])
           bundle == [id |-> nextId, ops |-> ops]
       IN IF ~c.valid
          THEN /\ req' = [req EXCEPT ![r] = Done(rq, "cannotPreview")]
               /\ UNCHANGED <<pendingWriteApprovals, nextId>>
          ELSE IF threw
          THEN /\ req' = [req EXCEPT ![r] = Done(rq, "failed")]
               /\ UNCHANGED <<pendingWriteApprovals, nextId>>
          ELSE IF rq.i < Len(calls)
          THEN /\ req' = [req EXCEPT ![r] = [rq EXCEPT !.ops = ops, !.i = rq.i + 1]]
               /\ UNCHANGED <<pendingWriteApprovals, nextId>>
          ELSE /\ pendingWriteApprovals' = setBundle(pendingWriteApprovals, bundle)
               /\ nextId' = nextId + 1
               /\ req' = [req EXCEPT ![r] =
                            Done([rq EXCEPT !.ops = ops, !.bundle = bundle], "awaitingApproval")]
    /\ UNCHANGED <<clusterWrites, trafficVars, diagram, np, imp, builderVars>>

\* a faulty variant of stopEarly: errors of the tools are not looked at
stopEarlyWhenDone(plan, hasErrors) == plan.done \/ Len(plan.toolCalls) = 0

\* (plan.done && !hasErrors) || (plan.toolCalls ?? []).length === 0
stopEarly(plan, hasErrors) == (plan.done /\ ~hasErrors) \/ Len(plan.toolCalls) = 0

\* executeToolCalls runs every call of the plan, then the loop decides: it
\* breaks when the planner is done and nothing failed or when no call was
\* asked for, and ends when MAX_ITERATIONS plans have been made, both of
\* which lead to the final sendText; otherwise the planner is asked again.
\* hasErrors stands for the results pushed to toolResults; the plan is not
\* read again, and after the loop neither are iteration and asked
executeToolCalls ==
  \E r \in DOMAIN req, hasErrors \in BOOLEAN :
    /\ req[r].pc = "executeToolCalls"
    /\ LET rq == req[r]
           toolCalls == rq.plan.toolCalls
       IN /\ (hasErrors => toolCalls # <<>>)
          /\ clusterWrites' = clusterWrites \o executedWrites(toolCalls, r)
          /\ req' = [req EXCEPT ![r] =
                       IF stopEarly(rq.plan, hasErrors)
                       THEN [rq EXCEPT !.pc = "sendText", !.hasErrors = hasErrors,
                                       !.plan = NoPlan, !.iteration = 0, !.asked = 0]
                       ELSE IF rq.iteration + 1 < MAX_ITERATIONS
                       THEN [rq EXCEPT !.pc = "sendJsonOnly", !.hasErrors = hasErrors,
                                       !.plan = NoPlan, !.iteration = rq.iteration + 1]
                       ELSE [rq EXCEPT !.pc = "sendText", !.hasErrors = hasErrors,
                                       !.plan = NoPlan, !.iteration = 0, !.asked = 0]]
    /\ UNCHANGED <<pendingWriteApprovals, nextId, trafficVars, diagram, np, imp, builderVars>>

\* the reporter answers the final prompt and the report is written to the
\* stream; a model call that throws ends the request without it
sendText ==
  \E r \in DOMAIN req, threw \in BOOLEAN :
    /\ req[r].pc = "sendText"
    /\ req' = [req EXCEPT ![r] = Done(@, IF threw THEN "reportFailed" ELSE "answered")]
    /\ UNCHANGED <<pendingWriteApprovals, nextId, clusterWrites, trafficVars, diagram, np, imp,
                   builderVars>>

----------------------------------------------------------------------------
(* The flow diagram: toMermaid.  Strings are sequences of atoms, each atom  *)
(* being either made of word characters only or one other character.        *)

\* the characters of the model's strings that are not [a-zA-Z0-9_]
NonWord == {"|", "-", ".", " ", "\"", ":", "\\n"}

\* the atoms of a string, run together
RECURSIVE Flat(_)
Flat(str) == IF str = <<>> THEN "" ELSE Head(str) \o Flat(Tail(str))

\* s.replace(/"/g, '\\"')
escapeLabel(str) == Flat([i \in DOMAIN str |-> IF str[i] = "\"" THEN "\\\"" ELSE str[i]])

\* "n_" + id.replace(/[^a-zA-Z0-9_]/g, "_")
keyFor(id) == "n_" \o Flat([i \in DOMAIN id |-> IF id[i] \in NonWord THEN "_" ELSE id[i]])

\* `${n.kind}\\n${n.name}${n.namespace ? `\\nns:${n.namespace}` : ""}`
labelOf(n) ==
  n.kind \o <<"\\n">> \o n.name
    \o (IF OrElse(n.namespace, <<>>) # <<>> THEN <<"\\n", "ns", ":">> \o n.namespace ELSE <<>>)

\* toMermaid: the lines after "graph LR", a declaration per node and then a
\* line per edge, each given by its parts
toMermaid(graph) ==
  [i \in DOMAIN graph.nodes |->
     [line |-> "node", key |-> keyFor(graph.nodes[i].id),
      label |-> escapeLabel(labelOf(graph.nodes[i]))]]
  \o [i \in DOMAIN graph.edges |->
        [line |-> "edge", from |-> keyFor(graph.edges[i].from),
         to |-> keyFor(graph.edges[i].to), reason |-> escapeLabel(graph.edges[i].reason)]]

\* the nodes of the graphs that are rendered: pods whose names differ in one
\* character, and a service
DiagramNodes ==
  {makeNode(<<"Pod">>, <<"a", "-", "b">>, NsN, "pod"),
   makeNode(<<"Pod">>, <<"a", ".", "b">>, NsN, "pod"),
   makeNode(<<"Pod">>, <<"a", "_", "b">>, NsN, "pod"),
   makeNode(<<"Pod">>, <<"ab">>, NsN, "pod"),
   makeNode(<<"Service">>, <<"a">>, NsN, "service")}

\* the edges of these graphs
DiagramEdges ==
  {[from |-> f, to |-> t, reason |-> r] :
     f \in DiagramNodes, t \in DiagramNodes,
     r \in {<<"Service selector matches pod labels">>, <<"say ", "\"", "hi", "\"">>}}

\* the graph a builder gives for a start node and a list of addEdge calls
RECURSIVE builtFrom(_, _)
builtFrom(g, edges) ==
  IF edges = <<>> THEN build(g)
  ELSE builtFrom(addEdge(g, Head(edges).from, Head(edges).to, Head(edges).reason),
                 Tail(edges))

\* nothing has been rendered
NoDiagram == [pc |-> "idle", graph |-> build(NoGraph), lines |-> <<>>]

\* analyzeTrafficFlow has a graph built
buildGraph ==
  /\ diagram.pc = "idle"
  /\ \E start \in DiagramNodes, edges \in SeqsUpTo(DiagramEdges, MaxEdges) :
       diagram' = [diagram EXCEPT !.pc = "built",
                                  !.graph = builtFrom(GraphBuilder(start), edges)]
  /\ UNCHANGED <<trafficVars, np, imp, chatVars, builderVars>>

\* const mermaid = toMermaid(graph)
renderMermaid ==
  /\ diagram.pc = "built"
  /\ diagram' = [diagram EXCEPT !.pc = "rendered", !.lines = toMermaid(diagram.graph)]
  /\ UNCHANGED <<trafficVars, np, imp, chatVars, builderVars>>

----------------------------------------------------------------------------
(* The GraphBuilder in the hands of its callers: any sequence of calls of   *)
(* its methods, the addEdge calls coming from sibling discoveries that      *)
(* share the builder and take turns at their awaits.  build() hands out     *)
(* this.edges and a non-empty this.warnings themselves, not copies, and a   *)
(* copy of the node list.                                                   *)

\* the sibling discoveries that share the builder
Siblings == {1, 2}

\* the nodes the callers add; the two Pod nodes have one id and differ in role
BuilderNodes ==
  {makeNode(<<"Service">>, SvcName(1), NsN, "service"),
   makeNode(<<"Pod">>, PodName(1), NsN, "pod"),
   makeNode(<<"Pod">>, PodName(1), NsN, "unknown")}

\* the arguments of the addEdge calls
EdgeArguments ==
  {[from |-> f, to |-> t, reason |-> r] :
     f \in {n \in BuilderNodes : n.role # "unknown"}, t \in BuilderNodes,
     r \in {<<"r">>, <<"s">>}}

NoEdgeArguments == [from |-> NoGraph.start, to |-> NoGraph.start, reason |-> <<>>]

\* a call that is not addEdge
Called(op) == [op |-> op, edge |-> NoEdgeArguments, wasPresent |-> FALSE]

\* a graph build() returned, as a caller that kept it sees it now: its node
\* list is its own, its edge list is the builder's, and so is its warning
\* list if it was given one
seenNow(r) ==
  [start |-> r.graph.start, nodes |-> r.graph.nodes, edges |-> bld.edges,
   warnings |-> IF r.sharesWarnings THEN bld.warnings ELSE <<>>]

\* new GraphBuilder(start)
newGraphBuilder ==
  /\ bld = NoGraph
  /\ \E start \in {n \in BuilderNodes : n.role # "unknown"} : bld' = GraphBuilder(start)
  /\ UNCHANGED <<returned, lastCall, issued, callsLeft, trafficVars, diagram, np, imp, chatVars>>

\* gb.addNode(n)
callAddNode ==
  /\ bld # NoGraph /\ callsLeft > 0
  /\ \E n \in BuilderNodes : bld' = addNode(bld, n)
  /\ lastCall' = Called("addNode")
  /\ callsLeft' = callsLeft - 1
  /\ UNCHANGED <<returned, issued, trafficVars, diagram, np, imp, chatVars>>

\* gb.addEdge(from, to, reason), called by one of the sibling discoveries
callAddEdge ==
  /\ bld # NoGraph /\ callsLeft > 0
  /\ \E sibling \in Siblings, e \in EdgeArguments :
       /\ bld' = addEdge(bld, e.from, e.to, e.reason)
       /\ lastCall' = [op |-> "addEdge", edge |-> e,
                       wasPresent |-> [from |-> e.from.id, to |-> e.to.id, reason |-> e.reason]
                                        \in {bld.edges[i] : i \in DOMAIN bld.edges}]
       /\ issued' = [issued EXCEPT ![sibling] =
                       @ \cup {[from |-> e.from.id, to |-> e.to.id, reason |-> e.reason]}]
  /\ callsLeft' = callsLeft - 1
  /\ UNCHANGED <<returned, trafficVars, diagram, np, imp, chatVars>>

\* gb.addWarning(w)
callAddWarning ==
  /\ bld # NoGraph /\ callsLeft > 0
  /\ bld' = addWarning(bld, <<"w">>)
  /\ lastCall' = Called("addWarning")
  /\ callsLeft' = callsLeft - 1
  /\ UNCHANGED <<returned, issued, trafficVars, diagram, np, imp, chatVars>>

\* gb.build(): the caller keeps the graph it is given
callBuild ==
  /\ bld # NoGraph /\ callsLeft > 0
  /\ returned' = Append(returned, [graph |-> build(bld), sharesWarnings |-> bld.warnings # <<>>])
  /\ lastCall' = Called("build")
  /\ callsLeft' = callsLeft - 1
  /\ UNCHANGED <<bld, issued, trafficVars, diagram, np, imp, chatVars>>

----------------------------------------------------------------------------
(* Specifications: each runs one component, the others stay as constructed *)

Init ==
  /\ TrafficInit
  /\ np = IdlePolicyQuery
  /\ imp = IdleImpactQuery
  /\ pendingWriteApprovals = <<>>
  /\ req = <<>>
  /\ nextId = 1
  /\ clusterWrites = <<>>
  /\ bld = NoGraph
  /\ returned = <<>>
  /\ lastCall = Called("")
  /\ issued = [sibling \in Siblings |-> {}]
  /\ callsLeft = MaxCalls
  /\ diagram = NoDiagram

Next ==
  \/ analyzeTrafficFlow
  \/ ensureStartExists
  \/ discoverTraffic
  \/ readNamespacedDeployment
  \/ listNamespacedPod
  \/ readNamespacedPod
  \/ listServices
  \/ listNamespacedEndpointSlice
  \/ listEndpointSlicesFallback
  \/ listIngresses
  \/ listDestinationRules
  \/ listVirtualServices
  \/ discoverFromIngress
  \/ discoverFromVirtualService
  \/ resume

Spec == Init /\ [][Next]_vars

NextPolicy ==
  \/ discoverNetworkPoliciesForTraffic
  \/ readSourcePod
  \/ readSourceNamespace
  \/ listNamespacedNetworkPolicy

SpecPolicy == Init /\ [][NextPolicy]_vars

NextImpact ==
  \/ analyzeImpact
  \/ listNamespacedDeployment
  \/ listNamespacedStatefulSet
  \/ listNamespacedDaemonSet
  \/ listNamespacedJob
  \/ impactRule
  \/ findIngressesReferencingService
  \/ findVirtualServicesReferencingService
  \/ findWorkloadsBackedByService
  \/ findServicesReferencedByIngress
  \/ findServicesReferencedByVirtualService
  \/ findGatewaysReferencedByVirtualService
  \/ findVirtualServicesReferencingGateway

SpecImpact == Init /\ [][NextImpact]_vars

NextChat ==
  \/ chatRequestHandler
  \/ kubeConnect
  \/ applyOp
  \/ sendJsonOnly
  \/ preview
  \/ executeToolCalls
  \/ sendText

SpecChat == Init /\ [][NextChat]_vars

NextMermaid ==
  \/ buildGraph
  \/ renderMermaid

SpecMermaid == Init /\ [][NextMermaid]_vars

NextBuilder ==
  \/ newGraphBuilder
  \/ callAddNode
  \/ callAddEdge
  \/ callAddWarning
  \/ callBuild

SpecBuilder == Init /\ [][NextBuilder]_vars

----------------------------------------------------------------------------
(* Properties of the traffic query *)

\* no two nodes of g share an id, no two edges share (from, to, reason)
NoDuplicates(g) ==
  /\ \A i, j \in DOMAIN g.nodes : g.nodes[i].id = g.nodes[j].id => i = j
  /\ \A i, j \in DOMAIN g.edges :
       (/\ g.edges[i].from = g.edges[j].from
        /\ g.edges[i].to = g.edges[j].to
        /\ g.edges[i].reason = g.edges[j].reason) => i = j

\* g has an edge between the two ids whose reason starts with the prefix
EdgeWithPrefix(g, from, to, prefix) ==
  \E i \in DOMAIN g.edges :
    g.edges[i].from = from /\ g.edges[i].to = to /\ startsWith(g.edges[i].reason, prefix)

HasNode(g, id) == \E i \in DOMAIN g.nodes : g.nodes[i].id = id

\* C1: whatever addNode, addEdge and addWarning calls discovery has made, the
\* graph build() returns (of the builder as it stands, and the one the query
\* returned) has no two nodes with one id and no two edges with one
\* (from, to, reason) triple.
C1_NoDuplicateNodesOrEdges ==
  /\ NoDuplicates(build(gb))
  /\ NoDuplicates(result.graph)

\* C1's case: one VirtualService reaches the service by two destinations that
\* the same DestinationRule covers with the same reason, so the second
\* addEdge calls repeat the first's triples.
C1_Witness ==
  /\ pc = "returned"
  /\ \E i \in DOMAIN vss :
       LET dests == matchedDestinations(vss[i].routes, cur.name, args.namespace)
       IN /\ Len(dests) >= 2
          /\ destinationRuleSuffix(dests[1]) = destinationRuleSuffix(dests[2])
          /\ findMatchingDestinationRule(destinationRules, dests[1].host, cur.name,
                                         args.namespace) # 0
          /\ HasNode(gb, nodeId(<<"VirtualService">>, vss[i].name, args.namespace))

\* C2: when discoverFromService has listed the VirtualServices, for every one
\* of them with a destination that hits the service and that a
\* DestinationRule matches, the graph has VirtualService -> DestinationRule
\* and DestinationRule -> Service, and the step added no direct
\* VirtualService -> Service edge.
C2_DestinationRulePreferred ==
  [][(pc = "listVirtualServices" /\ pc' = "returned") =>
       \A i \in DOMAIN vss' :
         LET ns == args.namespace
             dests == matchedDestinations(vss'[i].routes, cur.name, ns)
             vsId == nodeId(<<"VirtualService">>, vss'[i].name, ns)
             svcId == nodeId(<<"Service">>, cur.name, ns)
         IN \A k \in DOMAIN dests :
              LET d == findMatchingDestinationRule(destinationRules, dests[k].host,
                                                   cur.name, ns)
                  drId == nodeId(<<"DestinationRule">>, destinationRules[d].name, ns)
              IN d # 0 =>
                   /\ EdgeWithPrefix(gb', vsId, drId,
                                     <<"VirtualService traffic policy via DestinationRule">>)
                   /\ EdgeWithPrefix(gb', drId, svcId,
                                     <<"DestinationRule applies to this service host">>)
                   /\ \A e \in DOMAIN gb'.edges :
                        (gb'.edges[e].from = vsId /\ gb'.edges[e].to = svcId)
                          => \E f \in DOMAIN gb.edges : gb.edges[f] = gb'.edges[e]
    ]_vars

\* C2's case: a listed VirtualService routes to the service, a listed
\* DestinationRule matches, and the policy edges are in the graph.
C2_Witness ==
  /\ pc = "returned"
  /\ \E i \in DOMAIN vss :
       LET ns == args.namespace
           dests == matchedDestinations(vss[i].routes, cur.name, ns)
       IN /\ dests # <<>>
          /\ findMatchingDestinationRule(destinationRules, dests[1].host, cur.name, ns) # 0
          /\ \E d \in DOMAIN destinationRules :
               EdgeWithPrefix(gb, nodeId(<<"DestinationRule">>, destinationRules[d].name, ns),
                              nodeId(<<"Service">>, cur.name, ns),
                              <<"DestinationRule applies to this service host">>)

\* C3 as the specification states it: a query that starts from Pod P returns
\* a graph whose only Pod node is P.
C3_OnlyTheStartPod ==
  (pc = "done" /\ args.kind = <<"Pod">>) =>
    \A i \in DOMAIN result.graph.nodes :
      result.graph.nodes[i].kind = <<"Pod">>
        => result.graph.nodes[i].id = result.graph.start.id

\* the spelling test the specification gives for "host h targets service S of
\* namespace N"
TargetsService(h, S, N) ==
  \/ h = S
  \/ startsWith(h, S \o <<".">>)
  \/ h = S \o <<".">> \o N \o <<".", "svc", ".", "cluster", ".", "local">>

\* C4: in the discovery of service S of namespace N, a listed VirtualService
\* is taken as routing to S (its node enters the graph) exactly when one of
\* its destination hosts equals S, starts with "S." or equals
\* "S.N.svc.cluster.local".
C4_HostMatching ==
  (pc = "returned" /\ args.kind = <<"Service">> /\ cur.includeIstio) =>
    \A i \in DOMAIN vss :
      (\E r \in DOMAIN vss[i].routes :
         TargetsService(vss[i].routes[r].host, args.name, args.namespace))
      <=> HasNode(gb, nodeId(<<"VirtualService">>, vss[i].name, args.namespace))

\* C4's case: the name.namespace spelling alone brings a VirtualService in,
\* and a host that only shares a prefix with the name leaves another out.
C4_Witness ==
  /\ pc = "returned" /\ args.kind = <<"Service">> /\ cur.includeIstio
  /\ \E i, j \in DOMAIN vss :
       /\ \E r \in DOMAIN vss[i].routes : vss[i].routes[r].host = <<"a", ".", "n">>
       /\ \A r \in DOMAIN vss[i].routes : vss[i].routes[r].host = <<"a", ".", "n">>
       /\ HasNode(gb, nodeId(<<"VirtualService">>, vss[i].name, args.namespace))
       /\ \E r \in DOMAIN vss[j].routes : vss[j].routes[r].host = <<"a", "b">>
       /\ ~HasNode(gb, nodeId(<<"VirtualService">>, vss[j].name, args.namespace))

\* the known spellings of service S of namespace N, with the destination host
HostCandidates(S, N, dest) ==
  {S, S \o <<".">> \o N, S \o <<".">> \o N \o <<".", "svc", ".", "cluster", ".", "local">>, dest}

\* C25 as the specification states it: in the discovery of service S of
\* namespace N, a DestinationRule that the graph shows as applying to S
\* declares a host that equals one of the known spellings of S or the host of
\* a destination that points at S.
C25_DestinationRuleHostIsExact ==
  (pc = "returned" /\ args.kind = <<"Service">> /\ cur.includeIstio) =>
    \A d \in DOMAIN destinationRules :
      EdgeWithPrefix(gb, nodeId(<<"DestinationRule">>, destinationRules[d].name, args.namespace),
                     nodeId(<<"Service">>, args.name, args.namespace),
                     <<"DestinationRule applies to this service host">>)
        => \E i \in DOMAIN vss : \E r \in DOMAIN vss[i].routes :
             /\ TargetsService(vss[i].routes[r].host, args.name, args.namespace)
             /\ destinationRules[d].host
                  \in HostCandidates(args.name, args.namespace, vss[i].routes[r].host)

\* the graph has an edge from one node to the other, whatever its reason
Edge(g, from, to) == \E e \in DOMAIN g.edges : g.edges[e].from = from /\ g.edges[e].to = to

\* C30: in the discovery of service S with the Istio layer, every listed
\* VirtualService with a destination host that targets S has a path to S in
\* the graph: the edge VirtualService -> Service, or VirtualService ->
\* DestinationRule -> Service.
C30_VirtualServiceReachesService ==
  (pc = "returned" /\ args.kind = <<"Service">> /\ cur.includeIstio) =>
    \A i \in DOMAIN vss :
      (\E r \in DOMAIN vss[i].routes :
         TargetsService(vss[i].routes[r].host, args.name, args.namespace))
      => LET vsId == nodeId(<<"VirtualService">>, vss[i].name, args.namespace)
             svcId == nodeId(<<"Service">>, args.name, args.namespace)
         IN \/ Edge(gb, vsId, svcId)
            \/ \E d \in DOMAIN destinationRules :
                 LET drId == nodeId(<<"DestinationRule">>, destinationRules[d].name,
                                    args.namespace)
                 IN Edge(gb, vsId, drId) /\ Edge(gb, drId, svcId)

\* a VirtualService with a gateway reaches the service through a
\* DestinationRule and has no edge to the service itself
C30_Witness ==
  /\ pc = "returned" /\ args.kind = <<"Service">> /\ cur.includeIstio
  /\ \E i \in DOMAIN vss :
       LET svcId == nodeId(<<"Service">>, args.name, args.namespace)
           vsId == nodeId(<<"VirtualService">>, vss[i].name, args.namespace)
       IN /\ vss[i].gateways # <<>>
          /\ ~Edge(gb, vsId, svcId)
          /\ \E d \in DOMAIN destinationRules :
               LET drId == nodeId(<<"DestinationRule">>, destinationRules[d].name,
                                  args.namespace)
               IN Edge(gb, vsId, drId) /\ Edge(gb, drId, svcId)

\* C8 as the specification states it: a query fails only before its start
\* object is resolved, that is before the GraphBuilder exists.
C8_AuxiliaryLookupsNeverFail ==
  pc = "failed" => gb = NoGraph

\* the start kinds discoverTraffic has a discovery for
DiscoveredKinds ==
  {<<"Service">>, <<"Pod">>, <<"Ingress">>, <<"VirtualService">>, <<"Deployment">>}

\* C13 as the specification states it: a traffic query that names a start
\* kind without a discovery ends without an error, and its graph has a
\* warning, the start node as its only node, and no edge.
C13_UnsupportedKindWarns ==
  (pc \in {"done", "failed"} /\ args.kind # <<>> /\ args.name # <<>>
   /\ args.kind \notin DiscoveredKinds) =>
    /\ pc = "done"
    /\ result.status = "ok"
    /\ Len(result.graph.warnings) >= 1
    /\ Len(result.graph.nodes) = 1
    /\ result.graph.nodes[1] = result.graph.start
    /\ result.graph.edges = <<>>

----------------------------------------------------------------------------
(* Properties of the GraphBuilder *)

\* C14 as the specification states it: a graph that build() returned stays
\* as it was returned, whatever is called on the builder afterwards.
C14_BuiltGraphIsImmutable ==
  \A i \in DOMAIN returned : seenNow(returned[i]) = returned[i].graph

\* the ids of the nodes, in insertion order
NodeIds(g) == [i \in DOMAIN g.nodes |-> g.nodes[i].id]

C20_SiblingsShareTheBuilder ==
  /\ NoDuplicates(bld)
  /\ \A sibling \in Siblings : \A e \in issued[sibling] :
       \E i \in DOMAIN bld.edges : bld.edges[i] = e

\* both siblings added one common edge, and each another one between the
\* same two nodes for a different reason
C20_Witness ==
  /\ issued[1] \cap issued[2] # {}
  /\ issued[1] # issued[2]
  /\ Len(bld.edges) = 2
  /\ bld.edges[1].from = bld.edges[2].from /\ bld.edges[1].to = bld.edges[2].to

\* the ids of the nodes of a graph
IdsOf(g) == {g.nodes[i].id : i \in DOMAIN g.nodes}

\* every edge joins two nodes of the graph and the start node is one of them
EndpointsAreNodes(g) ==
  /\ g.start.id \in IdsOf(g)
  /\ \A i \in DOMAIN g.edges : g.edges[i].from \in IdsOf(g) /\ g.edges[i].to \in IdsOf(g)

\* C21 as the specification states it: in every state of a builder, and in
\* every graph that build() has returned, the from and the to of every edge
\* are ids of nodes of the node set, and so is the id of the start node.
C21_EdgesJoinNodes ==
  /\ bld # NoGraph => EndpointsAreNodes(bld)
  /\ \A i \in DOMAIN returned : EndpointsAreNodes(seenNow(returned[i]))

----------------------------------------------------------------------------
(* Properties of the flow diagram *)

\* the node declaration lines of the rendered text with that identifier
Declarations(key) ==
  {i \in DOMAIN diagram.lines : diagram.lines[i].line = "node" /\ diagram.lines[i].key = key}

\* C29 as the specification states it: in the rendered text the nodes of the
\* graph, whose ids are distinct, have distinct identifiers, and each end of
\* every edge line is the identifier of exactly one node declaration line.
C29_DistinctIdentifiers ==
  diagram.pc = "rendered" =>
    /\ \A i, j \in DOMAIN diagram.graph.nodes :
         i # j => keyFor(diagram.graph.nodes[i].id) # keyFor(diagram.graph.nodes[j].id)
    /\ \A i \in DOMAIN diagram.lines :
         diagram.lines[i].line = "edge" =>
           /\ Cardinality(Declarations(diagram.lines[i].from)) = 1
           /\ Cardinality(Declarations(diagram.lines[i].to)) = 1

----------------------------------------------------------------------------
(* Properties of the network-policy evaluator *)

\* the policies the evaluator looks at: the first maxPolicies of the listing
EvaluatedPolicies == {np.pols[i] : i \in 1..(IF np.maxPolicies < Len(np.pols)
                                             THEN np.maxPolicies ELSE Len(np.pols))}

\* the policy selects the destination pod: it has no matchLabels, or the
\* pod carries every one of them
SelectsDestination(p) ==
  p.podSelector = None \/
  \A k \in DOMAIN p.podSelector[1] :
    k \in DOMAIN np.podLabels /\ np.podLabels[k] = p.podSelector[1][k]

\* the policy declares the Ingress type and lists zero ingress rules
IngressTypeWithZeroRules(p) ==
  /\ \E i \in DOMAIN p.policyTypes : p.policyTypes[i] = "Ingress"
  /\ p.ingress.listed
  /\ p.ingress.rules = <<>>

SourceSupplied == np.srcPodName # undefined /\ np.srcPodName # <<>>

SourceLabelsUnread == np.srcPodLabels = None \/ np.srcNsLabels = None

\* the evaluator cannot fully evaluate the policy for the source: the policy
\* has an ingress type and either its rules are not listed, or it lists rules
\* and the labels of the source could not be read
CannotFullyEvaluate(p) ==
  /\ hasIngressType(p)
  /\ \/ ~p.ingress.listed
     \/ p.ingress.rules # <<>> /\ SourceLabelsUnread

\* C16 as the specification states it: when a source is supplied, the
\* finding of a selecting policy that cannot be fully evaluated carries no
\* allowFromSource value.
C16_CannotEvaluateLeavesUndefined ==
  (np.pc = "done" /\ SourceSupplied) =>
    \A p \in EvaluatedPolicies :
      (SelectsDestination(p) /\ CannotFullyEvaluate(p)) =>
        \A i \in DOMAIN np.findings :
          np.findings[i].policy = p.name => np.findings[i].allowFromSource = "undefined"

\* the notes the evaluator gives, none of which mentions selector expressions
OrdinaryNotes ==
  {<<"NetworkPolicy selects destination pod ">> \o np.podName \o <<".">>,
   <<"DENY: policy has Ingress with empty rules (deny-all ingress).">>,
   <<"Policy has Ingress type but rules are not explicitly listed; cannot fully evaluate.">>,
   <<"ALLOW: ingress rule allows all sources (no 'from' restrictions).">>,
   <<"ALLOW: ingress rule matches source podSelector.">>,
   <<"ALLOW: ingress rule matches source namespaceSelector.">>,
   <<"ALLOW: ingress rule matches both namespaceSelector and podSelector.">>,
   <<"POTENTIAL DENY: no ingress rule matched source pod/namespace (may block traffic).">>}

\* a selector the evaluator looks at uses selector expressions: the pod
\* selector of the policy, or, when a source is evaluated against the rules,
\* a selector of a from entry
UsesSelectorExpressions(p) ==
  \/ p.matchExpressions
  \/ /\ SourceSupplied /\ hasIngressType(p)
     /\ \E r \in DOMAIN p.ingress.rules : \E e \in DOMAIN p.ingress.rules[r].from :
          p.ingress.rules[r].from[e].matchExpressions

\* C17 as the specification states it: an evaluated policy whose matchLabels
\* select the destination pod and which uses selector expressions has a
\* finding that flags it, one whose note is none of the ordinary notes.
C17_SelectorExpressionsFlagged ==
  np.pc = "done" =>
    \A p \in EvaluatedPolicies :
      (SelectsDestination(p) /\ UsesSelectorExpressions(p)) =>
        \E i \in DOMAIN np.findings :
          np.findings[i].policy = p.name /\ np.findings[i].note \notin OrdinaryNotes

\* the labels were read and carry every label of the selector
Satisfies(labels, selector) ==
  /\ labels # None
  /\ \A k \in DOMAIN selector : k \in DOMAIN labels[1] /\ labels[1][k] = selector[k]

\* the from entry matches the source: by its pod selector, by its namespace
\* selector, or, when it declares both, by the two combined
EntryMatchesSource(fr) ==
  IF fr.podSelector # None /\ fr.namespaceSelector # None
  THEN Satisfies(np.srcPodLabels, fr.podSelector[1]) /\ Satisfies(np.srcNsLabels, fr.namespaceSelector[1])
  ELSE IF fr.podSelector # None THEN Satisfies(np.srcPodLabels, fr.podSelector[1])
  ELSE IF fr.namespaceSelector # None THEN Satisfies(np.srcNsLabels, fr.namespaceSelector[1])
  ELSE FALSE

\* the rule passes its port check: no destination port is given, the rule
\* lists no ports, or a listed port is named or equals the destination port
PassesPortCheck(rule) ==
  \/ np.destPort = None
  \/ rule.ports = <<>>
  \/ \E i \in DOMAIN rule.ports : rule.ports[i] = NamedPort \/ rule.ports[i] = np.destPort[1]

\* the rule allows the source
RuleAllowsSource(rule) ==
  /\ PassesPortCheck(rule)
  /\ rule.from = <<>> \/ \E e \in DOMAIN rule.from : EntryMatchesSource(rule.from[e])

\* the notes of a rule that allows the source by a from entry
MatchNotes ==
  {<<"ALLOW: ingress rule matches source podSelector.">>,
   <<"ALLOW: ingress rule matches source namespaceSelector.">>,
   <<"ALLOW: ingress rule matches both namespaceSelector and podSelector.">>}

\* the policies whose rules are evaluated for the source
PoliciesWithRules ==
  {p \in EvaluatedPolicies : SelectsDestination(p) /\ p.ingress.listed /\ p.ingress.rules # <<>>}

\* the finding of a policy (policy names are distinct)
FindingOfPolicy(p) ==
  np.findings[CHOOSE i \in DOMAIN np.findings : np.findings[i].policy = p.name]

\* C22 as the specification states it: for a selecting policy with listed
\* rules and a supplied source, allowFromSource is true exactly when some rule
\* allows the source, the note is then the one of the first such rule, and
\* otherwise allowFromSource is false with the potential-deny note.
C22_FirstAllowingRuleWins ==
  (np.pc = "done" /\ SourceSupplied) =>
    \A p \in PoliciesWithRules :
      LET f == FindingOfPolicy(p)
          allowing == {r \in DOMAIN p.ingress.rules : RuleAllowsSource(p.ingress.rules[r])}
          first == CHOOSE r \in allowing : \A q \in allowing : r <= q
      IN IF allowing # {}
         THEN /\ f.allowFromSource = "true"
              /\ IF p.ingress.rules[first].from = <<>>
                 THEN f.note = <<"ALLOW: ingress rule allows all sources (no 'from' restrictions).">>
                 ELSE f.note \in MatchNotes
         ELSE /\ f.allowFromSource = "false"
              /\ f.note = <<"POTENTIAL DENY: no ingress rule matched source pod/namespace (may block traffic).">>

\* C23: with a destination port given, a policy that is reported as allowing
\* the source has a rule without ports or with a port that is named or equals
\* the destination port; a policy whose rules all list ports that are numeric
\* and differ from the destination port is reported as not allowing it.
C23_PortsRestrictTheRule ==
  (np.pc = "done" /\ SourceSupplied /\ np.destPort # None) =>
    \A p \in PoliciesWithRules :
      /\ FindingOfPolicy(p).allowFromSource = "true" =>
           \E r \in DOMAIN p.ingress.rules :
             LET ports == p.ingress.rules[r].ports
             IN ports = <<>> \/ \E i \in DOMAIN ports :
                                  ports[i] = NamedPort \/ ports[i] = np.destPort[1]
      /\ (\A r \in DOMAIN p.ingress.rules :
            LET ports == p.ingress.rules[r].ports
            IN ports # <<>> /\ \A i \in DOMAIN ports :
                                 ports[i] # NamedPort /\ ports[i] # np.destPort[1])
           => FindingOfPolicy(p).allowFromSource = "false"

\* a rule that lets every source in lists only another port than the
\* destination port, and the policy is reported as not allowing the source
C23_Witness ==
  /\ np.pc = "done" /\ SourceSupplied /\ np.destPort = Some(80)
  /\ \E p \in PoliciesWithRules :
       /\ Len(p.ingress.rules) = 1
       /\ p.ingress.rules[1].ports = <<81>> /\ p.ingress.rules[1].from = <<>>
       /\ FindingOfPolicy(p).allowFromSource = "false"

\* C24 as the specification states it: a policy whose from entries all
\* declare both a namespaceSelector and a podSelector allows the source only
\* if, for one of the entries, the namespace labels and the pod labels of the
\* source both match.
C24_BothSelectorsCombined ==
  (np.pc = "done" /\ SourceSupplied) =>
    \A p \in PoliciesWithRules :
      (/\ \A r \in DOMAIN p.ingress.rules :
            /\ p.ingress.rules[r].from # <<>>
            /\ \A e \in DOMAIN p.ingress.rules[r].from :
                 /\ p.ingress.rules[r].from[e].podSelector # None
                 /\ p.ingress.rules[r].from[e].namespaceSelector # None
       /\ FindingOfPolicy(p).allowFromSource = "true")
        => \E r \in DOMAIN p.ingress.rules : \E e \in DOMAIN p.ingress.rules[r].from :
             EntryMatchesSource(p.ingress.rules[r].from[e])

----------------------------------------------------------------------------
(* Properties of the input validation and of the impact classifier *)

\* a required identity field is absent or empty
Missing(x) == x = undefined \/ x = <<>>

\* the traffic half of C9: a traffic query without kind or name has failed
\* and has issued no cluster call
TrafficQueryRejected ==
  (pc # "idle" /\ (Missing(args.kind) \/ Missing(args.name)))
    => (pc = "failed" /\ apiCalls = {})

\* C9 as the specification states it: a traffic query or an impact query
\* whose target lacks kind or name is rejected with an error, and no cluster
\* call has been made for it.
C9_MissingIdentityRejected ==
  /\ TrafficQueryRejected
  /\ (imp.pc # "idle" /\ (Missing(imp.ctx.target.kind) \/ Missing(imp.ctx.target.name)))
       => (imp.pc = "failed" /\ imp.apiCalls = {})

\* the reference types by which a pod template refers to the object of the
\* kind and name: on a volume, a projected volume, envFrom or env of a container
RefTypesOf(spec, kind, name) ==
  LET cs == spec.containers \o spec.initContainers
      word == IF kind = <<"ConfigMap">> THEN "configMap" ELSE "secret"
  IN {<<"volume:">> \o spec.volumes[i].name :
        i \in {j \in DOMAIN spec.volumes :
                 spec.volumes[j].source = word /\ spec.volumes[j].ref = name}}
     \cup
     {<<"projected:">> \o spec.volumes[i].name :
        i \in {j \in DOMAIN spec.volumes :
                 /\ spec.volumes[j].source = "projected"
                 /\ \E k \in DOMAIN spec.volumes[j].sources :
                      /\ spec.volumes[j].sources[k].source = word
                      /\ spec.volumes[j].sources[k].ref = name}}
     \cup
     {<<"envFrom:">> \o cs[i].name :
        i \in {j \in DOMAIN cs :
                 \E k \in DOMAIN cs[j].envFrom :
                   cs[j].envFrom[k].source = word \o "Ref" /\ cs[j].envFrom[k].ref = name}}
     \cup
     {<<"env:">> \o cs[i].name :
        i \in {j \in DOMAIN cs :
                 \E k \in DOMAIN cs[j].env :
                   cs[j].env[k].source = word \o "KeyRef" /\ cs[j].env[k].ref = name}}

\* the listed workloads whose pod template refers to the target
ReferencingWorkloads ==
  {i \in DOMAIN imp.workloads :
     RefTypesOf(imp.workloads[i].spec, imp.ctx.target.kind, imp.ctx.target.name) # {}}

\* C10: for a ConfigMap or Secret target, with no referencing workload the
\* result is NONE with an empty list and a "No workloads reference" summary;
\* with one or more, the overall severity and every impacted resource's
\* severity is MEDIUM (ConfigMap) or HIGH (Secret), every referencing
\* workload is listed, and every impactType is a reference type by which
\* that workload refers to the target.
C10_ConfigObjectImpact ==
  (imp.pc = "done" /\ imp.ctx.target.kind \in {<<"ConfigMap">>, <<"Secret">>}) =>
    LET r == imp.result
        isConfigMap == imp.ctx.target.kind = <<"ConfigMap">>
        sev == IF isConfigMap THEN "MEDIUM" ELSE "HIGH"
    IN IF ReferencingWorkloads = {}
       THEN /\ r.severity = "NONE"
            /\ r.impactedResources = <<>>
            /\ r.summary = (IF isConfigMap THEN <<"No workloads reference this ConfigMap.">>
                            ELSE <<"No workloads reference this Secret.">>)
       ELSE /\ r.severity = sev
            /\ \A w \in ReferencingWorkloads :
                 \E i \in DOMAIN r.impactedResources :
                   /\ r.impactedResources[i].kind = imp.workloads[w].kind
                   /\ r.impactedResources[i].name = imp.workloads[w].name
            /\ \A i \in DOMAIN r.impactedResources :
                 /\ r.impactedResources[i].severity = sev
                 /\ \E w \in ReferencingWorkloads :
                      /\ r.impactedResources[i].kind = imp.workloads[w].kind
                      /\ r.impactedResources[i].name = imp.workloads[w].name
                      /\ r.impactedResources[i].impactType \in
                           RefTypesOf(imp.workloads[w].spec, imp.ctx.target.kind,
                                      imp.ctx.target.name)

\* C10's case: a Secret that one workload refers to twice, by a volume and
\* by envFrom, is rated HIGH with the workload listed once.
C10_Witness ==
  /\ imp.pc = "done"
  /\ imp.ctx.target.kind = <<"Secret">>
  /\ imp.result.severity = "HIGH"
  /\ Len(imp.result.impactedResources) = 1
  /\ \E w \in ReferencingWorkloads :
       RefTypesOf(imp.workloads[w].spec, imp.ctx.target.kind, imp.ctx.target.name)
         = {<<"volume:", "v">>, <<"envFrom:", "c">>}


\* the severities from the lowest to the highest
SeverityOrder == <<"NONE", "LOW", "MEDIUM", "HIGH", "CRITICAL">>

\* the place of a severity in the order
SeverityRank(sev) == CHOOSE i \in DOMAIN SeverityOrder : SeverityOrder[i] = sev

\* the severity a kind's rule reports when it finds nothing impacted
SeverityWithoutConsumers(kind) ==
  IF kind \in {<<"ConfigMap">>, <<"Secret">>} THEN "NONE"
  ELSE IF kind = <<"Service">> THEN "LOW"
  ELSE IF kind = <<"VirtualService">> THEN "CRITICAL"
  ELSE "HIGH"

\* an impact query for a kind with a rule has returned its result
ImpactReturned == imp.pc = "done" /\ imp.ctx.target.kind \in SupportedKinds

\* C11: in every impact result of a supported kind the overall severity is at
\* least the severity of every impacted resource, it is the severity of one
\* of them when there is any, and it is the kind's fixed value when there is none.
C11_SeverityIsTheMaximum ==
  ImpactReturned =>
    LET r == imp.result
        entries == r.impactedResources
    IN /\ r.severity \in {SeverityOrder[i] : i \in DOMAIN SeverityOrder}
       /\ \A i \in DOMAIN entries :
            SeverityRank(r.severity) >= SeverityRank(entries[i].severity)
       /\ entries # <<>> => \E i \in DOMAIN entries : entries[i].severity = r.severity
       /\ entries = <<>> => r.severity = SeverityWithoutConsumers(imp.ctx.target.kind)

\* a Service with a route (CRITICAL) and a backed workload (HIGH) is rated CRITICAL
C11_Witness ==
  /\ ImpactReturned
  /\ imp.ctx.target.kind = <<"Service">>
  /\ imp.result.severity = "CRITICAL"
  /\ \E i, j \in DOMAIN imp.result.impactedResources :
       /\ imp.result.impactedResources[i].severity = "CRITICAL"
       /\ imp.result.impactedResources[j].severity = "HIGH"

\* the summary speaks of deleting
MentionsDeletion(summary) ==
  \E i \in DOMAIN summary : summary[i] \in {"Deleting", "deleted"}

\* the summary speaks of updating
MentionsUpdating(summary) == \E i \in DOMAIN summary : summary[i] = "Updating"

\* C12 as the specification states it: the summary of a supported kind's
\* result never mentions deletion when the action is update and never
\* mentions updating when the action is delete.
C12_SummaryFollowsAction ==
  ImpactReturned =>
    /\ imp.ctx.action = <<"update">> => ~MentionsDeletion(imp.result.summary)
    /\ imp.ctx.action = <<"delete">> => ~MentionsUpdating(imp.result.summary)

\* a service-impact query has collapsed the pods its selector selects
PodsCollapsed ==
  imp.pc = "done" /\ imp.ctx.target.kind = <<"Service">> /\ imp.hasSelector

\* the owner reference that controls the pod: the first one marked as
\* controller, the first one when none is marked
ControllingOwner(p) ==
  LET marked == {i \in DOMAIN p.owners : p.owners[i].controller}
  IN IF marked = {} THEN p.owners[1]
     ELSE p.owners[CHOOSE i \in marked : \A j \in marked : i <= j]

\* the reads of the ReplicaSet of that name that the query issued
ReadsOf(rs) == {k \in DOMAIN imp.rsReads : imp.rsReads[k].rs = rs}

\* the owner the specification gives the pod
TopLevelOwner(p) ==
  IF p.owners = <<>> THEN [kind |-> <<"Pod">>, name |-> p.name]
  ELSE LET o == ControllingOwner(p)
       IN IF o.kind # <<"ReplicaSet">> THEN [kind |-> o.kind, name |-> o.name]
          ELSE IF \E k \in ReadsOf(o.name) : imp.rsReads[k].answer = "Deployment"
          THEN [kind |-> <<"Deployment">>, name |-> <<"d">>]
          ELSE [kind |-> <<"ReplicaSet">>, name |-> o.name]

\* C26: the collapsing of the selected pods does not fail the query and gives
\* every pod exactly one owner: the pod itself when it has no owner
\* references, the Deployment when the read of the controlling ReplicaSet
\* shows a Deployment owner, the ReplicaSet itself when that read shows none
\* or fails, and the controlling owner itself when it is no ReplicaSet.
C26_OneOwnerPerPod ==
  /\ (imp.pc = "failed" /\ "listPod" \in imp.apiCalls) => imp.error # <<>> /\ imp.pods = <<>>
  /\ PodsCollapsed =>
       /\ Len(imp.owners) = Len(imp.pods)
       /\ \A i \in DOMAIN imp.pods : imp.owners[i] = TopLevelOwner(imp.pods[i])

\* three pods: one without owners, one whose ReplicaSet belongs to a
\* Deployment, one whose ReplicaSet could not be read
C26_Witness ==
  /\ PodsCollapsed
  /\ \E i, j, k \in DOMAIN imp.pods :
       /\ imp.pods[i].owners = <<>> /\ imp.owners[i].kind = <<"Pod">>
       /\ imp.owners[j].kind = <<"Deployment">>
       /\ imp.owners[k].kind = <<"ReplicaSet">>
       /\ \E r \in DOMAIN imp.rsReads :
            imp.rsReads[r].rs = imp.owners[k].name /\ imp.rsReads[r].answer = "403"

PodCount(e) ==
  CHOOSE n \in 0..(MaxWorkloadObjects + 1) : e.refType = <<"serviceSelector pods=">> \o NumStr(n)

RECURSIVE SumOfPodCounts(_)
SumOfPodCounts(entries) ==
  IF entries = <<>> THEN 0 ELSE PodCount(Head(entries)) + SumOfPodCounts(Tail(entries))

\* C28: the result of findWorkloadsBackedByService has exactly one entry for
\* every distinct (kind, name) owner of the selected pods and none besides,
\* every entry reports the number of selected pods with that owner, the
\* counts add up to the number of selected pods, and a service without a
\* selector has no entries.
C28_WorkloadsNotPods ==
  (imp.pc = "done" /\ imp.ctx.target.kind = <<"Service">>) =>
    /\ ~imp.hasSelector => imp.results = <<>>
    /\ imp.hasSelector =>
         /\ \A i \in DOMAIN imp.pods :
              \E e \in DOMAIN imp.results :
                imp.results[e].kind = imp.owners[i].kind /\ imp.results[e].name = imp.owners[i].name
         /\ \A e, f \in DOMAIN imp.results :
              (imp.results[e].kind = imp.results[f].kind /\ imp.results[e].name = imp.results[f].name)
                => e = f
         /\ \A e \in DOMAIN imp.results :
              /\ \E n \in 1..Len(imp.pods) :
                   imp.results[e].refType = <<"serviceSelector pods=">> \o NumStr(n)
              /\ PodCount(imp.results[e]) =
                   Cardinality({i \in DOMAIN imp.pods :
                                  imp.owners[i] = [kind |-> imp.results[e].kind,
                                                   name |-> imp.results[e].name]})
         /\ SumOfPodCounts(imp.results) = Len(imp.pods)

\* three pods, two of them under two ReplicaSets of one Deployment and one
\* without owners: two entries, with the counts 2 and 1
C28_Witness ==
  /\ imp.pc = "done" /\ imp.ctx.target.kind = <<"Service">> /\ imp.hasSelector
  /\ Len(imp.pods) = 3 /\ Len(imp.rsReads) = 2 /\ Len(imp.results) = 2
  /\ \E e \in DOMAIN imp.results :
       imp.results[e].kind = <<"Deployment">> /\ PodCount(imp.results[e]) = 2

----------------------------------------------------------------------------
(* Properties of the write-approval gate *)

PendingIds == {pendingWriteApprovals[i].id : i \in DOMAIN pendingWriteApprovals}

\* request r took a bundle out of the pending store on a confirm
Confirmed(r) ==
  /\ parseApprovalCommand(req[r].userText).action = "confirm"
  /\ req[r].pc = "applying" \/ (req[r].pc = "done" /\ req[r].outcome = "applied")

\* request r took a bundle out of the pending store on a cancel
Canceled(r) == req[r].pc = "done" /\ req[r].outcome = "canceled"

\* the bundle was stored by a request that previewed a plan with write calls
StoredByPlan(bundle) ==
  \E r \in DOMAIN req :
    /\ req[r].outcome = "awaitingApproval"
    /\ req[r].bundle = bundle
    /\ parseApprovalCommand(req[r].userText).action = ""

\* the write w is an operation of a stored bundle, sent by the request that
\* confirmed that bundle
BelongsToConfirmedBundle(w) ==
  /\ w.bundle # 0
  /\ Confirmed(w.req)
  /\ req[w.req].bundle.id = w.bundle
  /\ StoredByPlan(req[w.req].bundle)
  /\ w.op \in DOMAIN req[w.req].bundle.ops
  /\ req[w.req].bundle.ops[w.op].tool = w.tool

\* C6: every createResource or patchResource sent to the cluster is an
\* operation of a pending bundle that a confirm request took out of the store;
\* a plan that holds a write call never reaches executeToolCalls, and the
\* request that planned it sends no write and ends once the bundle is stored.
C6_WritesOnlyAfterConfirm ==
  /\ \A k \in DOMAIN clusterWrites : BelongsToConfirmedBundle(clusterWrites[k])
  /\ \A r \in DOMAIN req :
       /\ req[r].pc = "executeToolCalls" =>
            \A j \in DOMAIN req[r].plan.toolCalls : ~isWrite(req[r].plan.toolCalls[j])
       /\ parseApprovalCommand(req[r].userText).action = "" =>
            \A k \in DOMAIN clusterWrites : clusterWrites[k].req # r
       /\ req[r].outcome = "awaitingApproval" => req[r].pc = "done"

\* a bundle of two operations, stored by one request, has been applied in
\* full by a confirm while another bundle is still pending
C6_Witness ==
  /\ Len(clusterWrites) = 2
  /\ \E r \in DOMAIN req : req[r].outcome = "applied" /\ Len(req[r].bundle.ops) = 2
  /\ pendingWriteApprovals # <<>>

\* C7: in every interleaving of requests no operation of a bundle is sent
\* twice; a bundle being applied or already applied is no longer pending; a
\* canceled bundle is no longer pending and none of its operations was sent;
\* and no two requests ever obtain the same bundle.
C7_AppliedAtMostOnce ==
  /\ \A j, k \in DOMAIN clusterWrites :
       (clusterWrites[j].bundle = clusterWrites[k].bundle
        /\ clusterWrites[j].op = clusterWrites[k].op) => j = k
  /\ \A k \in DOMAIN clusterWrites : clusterWrites[k].bundle \notin PendingIds
  /\ \A r \in DOMAIN req :
       /\ Confirmed(r) => req[r].bundle.id \notin PendingIds
       /\ Canceled(r) =>
            /\ req[r].bundle.id \notin PendingIds
            /\ \A k \in DOMAIN clusterWrites : clusterWrites[k].bundle # req[r].bundle.id
  /\ \A r1, r2 \in DOMAIN req :
       ((Confirmed(r1) \/ Canceled(r1)) /\ (Confirmed(r2) \/ Canceled(r2))
        /\ req[r1].bundle.id = req[r2].bundle.id) => r1 = r2

\* a bundle was applied, and a later confirm naming its id found no bundle
C7_Witness ==
  \E r1, r2 \in DOMAIN req :
    /\ r1 < r2
    /\ req[r1].outcome = "applied"
    /\ req[r2].outcome = "noPendingApprovals"
    /\ req[r2].userText = [verb |-> "confirm", id |-> req[r1].bundle.id, more |-> FALSE]

----------------------------------------------------------------------------
(* Properties of the planner loop and of the approval commands *)

\* the places of a request that has reached the planner loop
PlannerPcs == {"sendJsonOnly", "preview", "executeToolCalls", "sendText"}

\* the ways a request that has reached the planner loop may have ended
PlannerOutcomes ==
  {"plannerFailed", "awaitingApproval", "cannotPreview", "failed", "answered", "reportFailed"}

C19_CommandWithoutId ==
  [][\A r \in DOMAIN req :
       LET rq == req[r]
           nx == req'[r]
       IN (/\ rq.pc = "kubeConnect" /\ nx.pc # "kubeConnect"
           /\ toLowerCase(rq.userText.verb) \in {"confirm", "cancel"}
           /\ ~rq.userText.more /\ rq.userText.id = 0
           /\ ~(nx.pc = "done" /\ nx.outcome = "noSession")) =>
            /\ (nx.pc = "done" /\ nx.outcome = "noPendingApprovals") <=> PendingIds = {}
            /\ PendingIds # {} =>
                 /\ nx.bundle.id \in PendingIds
                 /\ \A id \in PendingIds : id <= nx.bundle.id
                 /\ {pendingWriteApprovals'[i] : i \in DOMAIN pendingWriteApprovals'} =
                      {pendingWriteApprovals[i] : i \in DOMAIN pendingWriteApprovals}
                        \ {nx.bundle}
                 /\ IF toLowerCase(rq.userText.verb) = "cancel"
                    THEN nx.pc = "done" /\ nx.outcome = "canceled"
                    ELSE nx.pc = "applying"]_vars

\* two bundles were pending, a cancel without an id has taken the later one
\* and the earlier one is still pending
C19_Witness ==
  \E r \in DOMAIN req :
    /\ Canceled(r)
    /\ req[r].userText.id = 0
    /\ PendingIds # {}
    /\ \A id \in PendingIds : id < req[r].bundle.id

====
